---------------------------- MODULE Spec2Model ----------------------------
(***************************************************************************)
(* Model of the incremental graph-construction pipeline:                   *)
(*   - utils/validation.py       hierarchy validation (pure functions)     *)
(*   - loaders/organization_loader.py  PART_OF loading                     *)
(*   - transformers/chalmers_transformer.py  hierarchy cleaning            *)
(*   - loaders/streaming_loader.py     batch reader                        *)
(*   - loaders/incremental_loader.py   tracker, batch loop, checkpoint     *)
(*   - transformers/es_transformer.py  record transformation               *)
(* The graph database is modelled by what the Cypher statements of the     *)
(* loaders do to it (MATCH / MERGE / SET).                                 *)
(***************************************************************************)
EXTENDS Integers, Sequences, FiniteSets, TLC

VARIABLES
    nodes,        \* the store: per label, the sequence of nodes [id, props]
    partOf,       \* the store: set of PART_OF edges <<childId, parentId>>
    authored,     \* the store: AUTHORED edges [sourceId, targetId, order, role]
    affiliated,   \* the store: AFFILIATED_WITH edges [sourceId, targetId, title]
    rels,         \* hierarchy: the candidate edge list handed to an operation
    orgs,         \* hierarchy: the organization dicts handed to the transformer
    hres,         \* hierarchy: what the last hierarchy operation returned
    hits,         \* reader: the records of the source file (_es_data_cache hits)
    batch_size,   \* run argument
    max_batches,  \* run argument: <<>> for None, <<n>> for a cap of n
    checkpoint_every, \* run argument
    start_offset, \* run_incremental_loading / stream_publication_batches local
    batch_number, \* generator local of stream_publication_batches
    current_offset, \* generator local of stream_publication_batches
    yielded,      \* the (batch_number, batch_docs) pairs the generator has yielded
    pc,           \* "idle" (no run active), "running", "done" (generator returned)
    progress,     \* IncrementalDataLoader.progress (in memory)
    file,         \* the checkpoint file: <<>> if absent, else <<contents>>
    stats,        \* IncrementalDataLoader.stats
    tracker,      \* EntityTracker._existing_entities
    run,          \* history: runs started, how the last one ended, what went wrong
    hist          \* history: offset ranges of the batches processed completely

hierVars == <<rels, orgs, hres>>
storeVars == <<nodes, partOf, authored, affiliated>>
readerVars == <<hits, batch_size, max_batches, start_offset, batch_number, current_offset, yielded>>
loaderVars == <<checkpoint_every, progress, file, stats, tracker, run, hist>>
vars == <<nodes, partOf, authored, affiliated, rels, orgs, hres, hits, batch_size,
          max_batches, checkpoint_every, start_offset, batch_number, current_offset,
          yielded, pc, progress, file, stats, tracker, run, hist>>

(***************************************************************************)
(* Bounds and small input sets                                             *)
(***************************************************************************)
MaxEdges == 3
MaxOrgDicts == 3
MaxStreamDocs == 4
MaxBatchSize == 3
MaxCap == 2
MaxDocs == 2
MaxRuns == 2
MaxRunCap == 1
MaxEvery == 2
MaxWriteFailures == 1
MaxHist == 3

None == "None"
OrgSeq == <<"10", "20", "30">>
OrgIds == {OrgSeq[i] : i \in DOMAIN OrgSeq}

Range(s) == {s[i] : i \in DOMAIN s}
Min(a, b) == IF a <= b THEN a ELSE b
SeqsUpTo(S, n) == UNION {[1..k -> S] : k \in 0..n}

\* Position of the first occurrence of x in s (Python list.index)
Index(s, x) == CHOOSE i \in DOMAIN s : s[i] = x /\ \A j \in 1..(i-1) : s[j] # x

\* Keys of a Python dict filled in the order of s: first insertion order
RECURSIVE Dedup(_)
Dedup(s) ==
    IF s = <<>> THEN <<>>
    ELSE LET front == Dedup(SubSeq(s, 1, Len(s) - 1))
             last == s[Len(s)]
         IN IF last \in Range(front) THEN front ELSE Append(front, last)

RECURSIVE Flatten(_)
Flatten(ss) == IF ss = <<>> THEN <<>> ELSE Head(ss) \o Flatten(Tail(ss))

(***************************************************************************)
(* models/organization.py: OrganizationHierarchy                           *)
(***************************************************************************)
OrganizationHierarchy(c, p) == [childId |-> c, parentId |-> p]

Edges == {OrganizationHierarchy(c, p) : c \in OrgIds, p \in OrgIds}
EdgeLists == SeqsUpTo(Edges, MaxEdges)

IsSelfRef(r) == r.childId = r.parentId

(***************************************************************************)
(* utils/validation.py: validate_hierarchy                                 *)
(* A diagnostic is the message string, kept as its parts: the tag the      *)
(* message starts with ("CRITICAL:", "WARNING:" or none), what it reports  *)
(* and the organization ids it names.                                      *)
(***************************************************************************)
Diagnostic(prefix, what, ids, counts) ==
    [prefix |-> prefix, what |-> what, ids |-> ids, counts |-> counts]

\* (mutant) one message per self-referencing organization instead of per edge
SelfRefErrors_PerOrg(relationships) ==
    LET self_refs == Dedup([i \in DOMAIN SelectSeq(relationships, IsSelfRef) |->
                              SelectSeq(relationships, IsSelfRef)[i].childId])
    IN [i \in DOMAIN self_refs |->
          Diagnostic("CRITICAL:", "Self-reference detected", <<self_refs[i]>>, <<>>)]

\* step 1: one message per self-referential edge, in list order
SelfRefErrors(relationships) ==
    LET self_refs == SelectSeq(relationships, IsSelfRef)
    IN [i \in DOMAIN self_refs |->
          Diagnostic("CRITICAL:", "Self-reference detected",
                     <<self_refs[i].childId>>, <<>>)]

\* step 2: parent_map[childId] = parentId over the non-self edges, last edge wins
NonSelf(relationships) == SelectSeq(relationships, LAMBDA r : ~IsSelfRef(r))

ParentMapKeys(relationships) ==
    LET ns == NonSelf(relationships)
    IN Dedup([i \in DOMAIN ns |-> ns[i].childId])

ParentMap(relationships) ==
    LET ns == NonSelf(relationships)
        last(c) == CHOOSE i \in DOMAIN ns :
                      /\ ns[i].childId = c
                      /\ \A j \in DOMAIN ns : ns[j].childId = c => j <= i
    IN [c \in {ns[i].childId : i \in DOMAIN ns} |-> ns[last(c)].parentId]

\* step 3, the inner while loop: <<>> when the walk leaves the map, else the
\* cycle path  path[cycle_start:] + [current]
RECURSIVE WalkUp(_, _, _, _)
WalkUp(parent_map, current, visited, path) ==
    IF current \notin DOMAIN parent_map THEN <<>>
    ELSE IF current \in visited
         THEN SubSeq(path, Index(path, current), Len(path)) \o <<current>>
         ELSE WalkUp(parent_map, parent_map[current],
                     visited \cup {current}, Append(path, current))

\* step 3, the outer for loop over the keys of parent_map
RECURSIVE DetectCycles(_, _, _, _)
DetectCycles(parent_map, keys, i, acc) ==
    IF i > Len(keys) THEN acc
    ELSE IF keys[i] \in acc.cycles_detected
         THEN DetectCycles(parent_map, keys, i + 1, acc)
         ELSE LET cycle_path == WalkUp(parent_map, keys[i], {}, <<>>)
              IN IF cycle_path = <<>>
                 THEN DetectCycles(parent_map, keys, i + 1, acc)
                 ELSE DetectCycles(parent_map, keys, i + 1,
                        [errors |-> Append(acc.errors,
                                      Diagnostic("", "Cycle detected", cycle_path, <<>>)),
                         cycles_detected |-> acc.cycles_detected \cup Range(cycle_path)])

CycleErrors(relationships) ==
    DetectCycles(ParentMap(relationships), ParentMapKeys(relationships), 1,
                 [errors |-> <<>>, cycles_detected |-> {}]).errors

\* step 4: one WARNING message listing every child with more than one parent
ParentCount(relationships, c) ==
    LET ns == NonSelf(relationships)
    IN Cardinality({i \in DOMAIN ns : ns[i].childId = c})

MultiParentErrors(relationships) ==
    LET children == SelectSeq(ParentMapKeys(relationships),
                              LAMBDA c : ParentCount(relationships, c) > 1)
    IN IF children # <<>>
       THEN << Diagnostic("WARNING:", "Organizations with multiple parents", children,
                          [i \in DOMAIN children |-> ParentCount(relationships, children[i])]) >>
       ELSE <<>>

HasTag(error, tag) == error.prefix = tag

\* (mutant) any diagnostic, a WARNING too, invalidates
IsValidFlag_NoErrors(errors) == Len(errors) = 0

IsValidFlag(errors) ==
    Len(errors) = 0 \/ \A i \in DOMAIN errors : HasTag(errors[i], "WARNING:")

validate_hierarchy(relationships) ==
    LET errors == SelfRefErrors(relationships) \o CycleErrors(relationships)
                    \o MultiParentErrors(relationships)
    IN [is_valid |-> IsValidFlag(errors), errors |-> errors]

(***************************************************************************)
(* utils/validation.py: prevent_cycles                                     *)
(* The result is (is_safe_to_add, error_message); None is <<>>.            *)
(***************************************************************************)
\* step 3, the while loop: the path of the cycle found, <<>> when the loop
\* ends without reaching the new child
RECURSIVE PreventWalk(_, _, _, _, _)
PreventWalk(parent_map, childId, current, visited, path) ==
    IF current \in DOMAIN parent_map /\ current \notin visited
    THEN IF parent_map[current] = childId
         THEN Append(path, parent_map[current])
         ELSE PreventWalk(parent_map, childId, parent_map[current],
                          visited \cup {current}, Append(path, parent_map[current]))
    ELSE <<>>

prevent_cycles(existing_relationships, new_relationship) ==
    IF new_relationship.childId = new_relationship.parentId
    THEN [is_safe_to_add |-> FALSE,
          error_message |-> << Diagnostic("", "Cannot add self-reference",
                                 <<new_relationship.childId, new_relationship.parentId>>, <<>>) >>]
    ELSE LET cycle_path == PreventWalk(ParentMap(existing_relationships),
                                       new_relationship.childId, new_relationship.parentId, {},
                                       <<new_relationship.childId, new_relationship.parentId>>)
         IN IF cycle_path # <<>>
            THEN [is_safe_to_add |-> FALSE,
                  error_message |-> << Diagnostic("", "Adding relationship would create cycle",
                                                  cycle_path, <<>>) >>]
            ELSE [is_safe_to_add |-> TRUE, error_message |-> <<>>]

(***************************************************************************)
(* utils/validation.py: extract_hierarchy_relationships                    *)
(* An organization dict carries id and parent_id as Python values: None,   *)
(* a str or an int. str() turns both into the string; == compares type     *)
(* and value.                                                              *)
(***************************************************************************)
PyStr(s) == [t |-> "str", v |-> s]
PyInt(s) == [t |-> "int", v |-> s]
PyNone == [t |-> "NoneType", v |-> ""]
Truthy(x) == x # PyNone
Str(x) == x.v

OrgDicts == {[id |-> i, parent_id |-> p] :
               i \in {PyStr(o) : o \in OrgIds} \cup {PyInt("10")},
               p \in {PyStr(o) : o \in OrgIds} \cup {PyNone}}
OrgDictLists == SeqsUpTo(OrgDicts, MaxOrgDicts)

\* the OrganizationHierarchy constructor: its parentId validator raises on
\* childId == parentId, and the caller's except clause drops the edge
ConstructorAccepts(c, p) == c # p

CandidateOf(org) ==
    IF /\ Truthy(org.id) /\ Truthy(org.parent_id) /\ org.id # org.parent_id
       /\ ConstructorAccepts(Str(org.id), Str(org.parent_id))
    THEN << OrganizationHierarchy(Str(org.id), Str(org.parent_id)) >>
    ELSE <<>>

CriticalErrors(errors) == SelectSeq(errors, LAMBDA e : HasTag(e, "CRITICAL:"))

extract_hierarchy_relationships(organizations) ==
    LET relationships == Flatten([i \in DOMAIN organizations |-> CandidateOf(organizations[i])])
        v == validate_hierarchy(relationships)
    IN IF ~v.is_valid /\ CriticalErrors(v.errors) # <<>>
       THEN NonSelf(relationships)
       ELSE relationships

(***************************************************************************)
(* transformers/chalmers_transformer.py                                    *)
(***************************************************************************)
\* the ids parsed back out of the "Self-reference detected - <id> ..." messages
SelfRefIdsOf(errors) ==
    {errors[i].ids[1] : i \in {j \in DOMAIN errors : errors[j].what = "Self-reference detected"}}

fix_hierarchy_issues(relationships, errors) ==
    LET self_refs == SelfRefIdsOf(errors)
    IN SelectSeq(relationships,
                 LAMBDA r : /\ ~IsSelfRef(r)
                            /\ r.childId \notin self_refs
                            /\ r.parentId \notin self_refs)

\* load_chalmers_structure, steps 4 and 5
ChalmersHierarchy(raw_organizations) ==
    LET hierarchy_relationships == extract_hierarchy_relationships(raw_organizations)
        v == validate_hierarchy(hierarchy_relationships)
    IN IF ~v.is_valid
       THEN fix_hierarchy_issues(hierarchy_relationships, v.errors)
       ELSE hierarchy_relationships

(***************************************************************************)
(* loaders/organization_loader.py                                          *)
(***************************************************************************)
NodeIdsOf(ns, label) == {ns[label][i].id : i \in DOMAIN ns[label]}

fix_critical_hierarchy_issues(relationships) == NonSelf(relationships)

\* utils/validation.py: validate_relationship('PART_OF', source_id, target_id)
validate_relationship_PART_OF(source_id, target_id) ==
    /\ source_id # ""
    /\ target_id # ""
    /\ source_id # target_id

\* MATCH (child) MATCH (parent) MERGE (child)-[:PART_OF]->(parent)
\* RETURN count(*): one row per matched pair of nodes, none if an end is absent
MergePartOf(ns, edges, c, p) ==
    IF c \in NodeIdsOf(ns, "Organization") /\ p \in NodeIdsOf(ns, "Organization")
    THEN edges \cup {<<c, p>>}
    ELSE edges

load_single_relationship(ns, st, relationship) ==
    IF ~validate_relationship_PART_OF(relationship.childId, relationship.parentId)
    THEN [st EXCEPT !.skipped = @ + 1]
    ELSE LET after == MergePartOf(ns, st.edges, relationship.childId, relationship.parentId)
             created == IF /\ relationship.childId \in NodeIdsOf(ns, "Organization")
                           /\ relationship.parentId \in NodeIdsOf(ns, "Organization")
                        THEN 1 ELSE 0
         IN IF created > 0
            THEN [st EXCEPT !.edges = after, !.created = @ + 1]
            ELSE [st EXCEPT !.edges = after, !.skipped = @ + 1]

RECURSIVE LoadEach(_, _, _)
LoadEach(ns, st, relationships) ==
    IF relationships = <<>> THEN st
    ELSE LoadEach(ns, load_single_relationship(ns, st, Head(relationships)),
                  Tail(relationships))

\* (mutant) the cleaning keeps one parent edge per child, the last one
CleanedForLoad_LastParent(relationships) ==
    Flatten([i \in DOMAIN relationships |->
               IF \A j \in DOMAIN relationships :
                     relationships[j].childId = relationships[i].childId => j <= i
               THEN <<relationships[i]>> ELSE <<>>])

\* the list load_hierarchy_relationships goes on to load
CleanedForLoad(relationships) ==
    LET v == validate_hierarchy(relationships)
    IN IF ~v.is_valid /\ CriticalErrors(v.errors) # <<>>
       THEN fix_critical_hierarchy_issues(relationships)
       ELSE relationships

load_hierarchy_relationships(ns, edges, relationships) ==
    LET v == validate_hierarchy(relationships)
        fixing == ~v.is_valid /\ CriticalErrors(v.errors) # <<>>
        cleaned == CleanedForLoad(relationships)
        st0 == [edges |-> edges,
                processed |-> IF fixing THEN Len(relationships) ELSE 0,
                skipped |-> IF fixing THEN Len(relationships) - Len(cleaned) ELSE 0,
                created |-> 0]
    IN [cleaned |-> cleaned, st |-> LoadEach(ns, st0, cleaned)]

(***************************************************************************)
(* Hierarchy operations applied to bounded inputs                          *)
(***************************************************************************)
OrgNode(o) == [id |-> o, props |-> "org"]
NoNodes == [Publication |-> <<>>, Person |-> <<>>, Organization |-> <<>>]

IdleProgress == [last_processed_offset |-> 0, total_processed |-> 0, batches_completed |-> 0]
IdleStats == [batches_processed |-> 0, total_publications_processed |-> 0]
EmptyTracker == [Person |-> {}, Publication |-> {}, Organization |-> {}]
NoRun == [started |-> 0, exit |-> "none", start_offset |-> 0, completed |-> 0, delivered_to |-> 0,
          on_cadence |-> TRUE, write_failures |-> 0, partial |-> FALSE, abnormal |-> FALSE]

\* a loader that is not running and a reader with nothing to read
LoaderUnused ==
    /\ hits = <<>> /\ batch_size = 1 /\ max_batches = <<>> /\ checkpoint_every = 1
    /\ start_offset = 0 /\ batch_number = 0 /\ current_offset = 0 /\ yielded = <<>>
    /\ pc = "idle" /\ progress = IdleProgress /\ file = <<>> /\ stats = IdleStats
    /\ tracker = EmptyTracker /\ run = NoRun /\ hist = <<>>
    /\ authored = {} /\ affiliated = {}

HierInit ==
    /\ LoaderUnused
    /\ partOf = {}
    /\ hres = [op |-> "none"]
    /\ \/ /\ rels \in EdgeLists
          /\ orgs = <<>>
          /\ \E present \in SUBSET OrgIds :
                nodes = [NoNodes EXCEPT !.Organization =
                           [i \in DOMAIN SelectSeq(OrgSeq, LAMBDA o : o \in present) |->
                              OrgNode(SelectSeq(OrgSeq, LAMBDA o : o \in present)[i])]]
       \/ /\ rels = <<>>
          /\ orgs \in OrgDictLists \ {<<>>}
          /\ nodes = [NoNodes EXCEPT !.Organization = [i \in DOMAIN OrgSeq |-> OrgNode(OrgSeq[i])]]

HValidate ==
    /\ hres.op = "none"
    /\ orgs = <<>>
    /\ hres' = [op |-> "validate", result |-> validate_hierarchy(rels)]
    /\ UNCHANGED <<storeVars, rels, orgs, readerVars, loaderVars, pc>>

HExtract ==
    /\ hres.op = "none"
    /\ orgs # <<>>
    /\ hres' = [op |-> "extract", out |-> extract_hierarchy_relationships(orgs)]
    /\ UNCHANGED <<storeVars, rels, orgs, readerVars, loaderVars, pc>>

HChalmers ==
    /\ hres.op = "none"
    /\ orgs # <<>>
    /\ rels' = ChalmersHierarchy(orgs)
    /\ hres' = [op |-> "chalmers", out |-> rels']
    /\ UNCHANGED <<storeVars, orgs, readerVars, loaderVars, pc>>

HLoad ==
    /\ \/ hres.op = "none" /\ orgs = <<>>
       \/ hres.op = "chalmers"
    /\ LET r == load_hierarchy_relationships(nodes, partOf, rels)
       IN /\ partOf' = r.st.edges
          /\ hres' = [op |-> "load", cleaned |-> r.cleaned,
                      processed |-> r.st.processed, skipped |-> r.st.skipped,
                      created |-> r.st.created]
    /\ UNCHANGED <<nodes, authored, affiliated, rels, orgs, readerVars, loaderVars, pc>>

\* prevent_cycles(existing_relationships, new_relationship) on the list
HPrevent(new_relationship) ==
    /\ hres.op = "none"
    /\ orgs = <<>>
    /\ hres' = [op |-> "prevent", new |-> new_relationship,
                result |-> prevent_cycles(rels, new_relationship)]
    /\ UNCHANGED <<storeVars, rels, orgs, readerVars, loaderVars, pc>>

HierNext ==
    \/ HValidate \/ HExtract \/ HChalmers \/ HLoad
    \/ \E new_relationship \in Edges : HPrevent(new_relationship)

SpecHier == HierInit /\ [][HierNext]_vars

(***************************************************************************)
(* loaders/streaming_loader.py: stream_publication_batches                 *)
(* The generator keeps batch_number and current_offset between two yields. *)
(***************************************************************************)
\* hits[a:b] for 0 <= a
Slice(s, a, b) == SubSeq(s, a + 1, Min(b, Len(s)))

EndOffset(cur, size, total_docs) == Min(cur + size, total_docs)

\* (mutant) the cap compared with > instead of >=
CapReached_OffByOne(cap, number) == cap # <<>> /\ number > cap[1]

\* max_batches is not None and batch_number >= max_batches
CapReached(cap, number) == cap # <<>> /\ number >= cap[1]

BatchDocs(h, cur, size) == Slice(h, cur, EndOffset(cur, size, Len(h)))

\* (mutant) the loop without "while current_offset < total_docs" and
\* without "if not batch_docs: break"
GenYields_Unbounded == ~CapReached(max_batches, batch_number)

\* the generator runs on to its next yield
GenYields ==
    /\ current_offset < Len(hits)
    /\ ~CapReached(max_batches, batch_number)
    /\ BatchDocs(hits, current_offset, batch_size) # <<>>

\* the generator locals after the yield and the resumption that follows it
GenAdvance ==
    /\ batch_number' = batch_number + 1
    /\ current_offset' = EndOffset(current_offset, batch_size, Len(hits))
    /\ yielded' = Append(yielded, [batch_number |-> batch_number + 1,
                                  batch_docs |-> BatchDocs(hits, current_offset, batch_size)])

Caps == {<<>>} \cup {<<n>> : n \in 0..MaxCap}

StreamInit ==
    /\ \E n \in 0..MaxStreamDocs : hits = [i \in 1..n |-> i]
    /\ batch_size \in 1..MaxBatchSize
    /\ max_batches \in Caps
    /\ start_offset \in 0..(MaxStreamDocs + 1)
    /\ batch_number = 0
    /\ current_offset = start_offset
    /\ yielded = <<>>
    /\ pc = "running"
    /\ checkpoint_every = 1 /\ progress = IdleProgress /\ file = <<>> /\ stats = IdleStats
    /\ tracker = EmptyTracker /\ run = NoRun /\ hist = <<>>
    /\ nodes = NoNodes /\ partOf = {} /\ authored = {} /\ affiliated = {}
    /\ rels = <<>> /\ orgs = <<>> /\ hres = [op |-> "none"]

StreamYield ==
    /\ pc = "running"
    /\ GenYields
    /\ GenAdvance
    /\ UNCHANGED <<storeVars, hierVars, loaderVars, hits, batch_size, max_batches,
                   start_offset, pc>>

StreamReturn ==
    /\ pc = "running"
    /\ ~GenYields
    /\ pc' = "done"
    /\ UNCHANGED <<storeVars, hierVars, loaderVars, readerVars>>

StreamNext == StreamYield \/ StreamReturn

SpecStream == StreamInit /\ [][StreamNext]_vars

(***************************************************************************)
(* The source records read by the incremental loader.  A record is an ES   *)
(* hit [_id, _source]; _source carries Id, Title, Year and the Persons     *)
(* array; an author entry carries PersonData (with its OrganizationHome    *)
(* list) and the Organizations list.  A missing key or a None value is     *)
(* None, an empty string is "".                                            *)
(***************************************************************************)
Author(pid, name, home, organizations) ==
    [PersonData |-> [Id |-> pid, DisplayName |-> name, OrganizationHome |-> home],
     Organizations |-> organizations]

Home(oid, title) == [OrganizationData |-> [Id |-> oid], TitleEng |-> title]

OrgRef(oid, name) == [OrganizationData |-> [Id |-> oid, NameEng |-> name]]

Hit(id, sid, title, year, persons) ==
    [_id |-> id, _source |-> [Id |-> sid, Title |-> title, Year |-> year, Persons |-> persons]]

\* q1 by p1, who is affiliated with organization 10 under title T1
DocA == Hit("q1", None, "t1", 2020,
            <<Author("p1", "n1", <<Home("10", "T1")>>, <<OrgRef("10", "Org10")>>)>>)
\* q2 by p1 (now with title T2 at organization 10) and p2
DocB == Hit("q2", None, "t2", 2021,
            <<Author("p1", "n1", <<Home("10", "T2")>>, <<OrgRef("10", "Org10")>>),
              Author("p2", "n2", <<>>, <<OrgRef("20", "Org20")>>)>>)
\* q1 again with another title; its author p2 has no DisplayName
DocC == Hit("q1", None, "t3", 2020, <<Author("p2", "", <<>>, <<>>)>>)
\* a record without Title; p1 is at home in organization 30, which no
\* Organizations list carries; its second author p3 has no DisplayName
DocD == Hit("q2", None, "", 2021,
            <<Author("p1", "n1", <<Home("30", None)>>, <<>>), Author("p3", "", <<>>, <<>>)>>)

Catalogue == {DocA, DocB, DocC, DocD}

(***************************************************************************)
(* transformers/es_transformer.py: ESTransformer                           *)
(* A transform returns <<node>>, or <<>> where the code raises.            *)
(***************************************************************************)
Or(a, b) == IF a # None /\ a # "" THEN a ELSE b

transform_publication(pub_doc) ==
    LET es_doc == pub_doc._source
        doc_id == Or(es_doc.Id, pub_doc._id)
    IN IF doc_id = None \/ doc_id = "" \/ es_doc.Title = "" \/ es_doc.Title = None
          \/ es_doc.Year = 0
         THEN <<>>
         ELSE <<[id |-> doc_id, props |-> [title |-> es_doc.Title, year |-> es_doc.Year]]>>

transform_person(es_doc) ==
    IF es_doc.Id = None \/ es_doc.DisplayName = ""
      THEN <<>>
      ELSE <<[id |-> es_doc.Id, props |-> [displayName |-> es_doc.DisplayName]]>>

transform_organization(es_doc) ==
    IF es_doc.Id = None \/ es_doc.NameEng = ""
      THEN <<>>
      ELSE <<[id |-> es_doc.Id, props |-> [nameEng |-> es_doc.NameEng]]>>

(***************************************************************************)
(* loaders/streaming_loader.py: extract_nested_entities_from_publications  *)
(***************************************************************************)
\* the author entries of the batch, in document order
PersonsArrays(publications) ==
    Flatten([i \in DOMAIN publications |-> publications[i]._source.Persons])

\* the first element for every key, in order of first occurrence (a dict
\* filled with "if key and key not in d")
RECURSIVE FirstByKey(_, _)
FirstByKey(items, seen) ==
    IF items = <<>> THEN <<>>
    ELSE IF Head(items).Id = None \/ Head(items).Id \in seen
           THEN FirstByKey(Tail(items), seen)
           ELSE <<Head(items)>> \o FirstByKey(Tail(items), seen \cup {Head(items).Id})

\* (mutant) a list instead of a dict: one element per author entry with an Id
NestedPersons_NoDedup(publications) ==
    LET entries == PersonsArrays(publications)
    IN SelectSeq([i \in DOMAIN entries |-> entries[i].PersonData], LAMBDA x : x.Id # None)

NestedPersons(publications) ==
    LET entries == PersonsArrays(publications)
    IN FirstByKey([i \in DOMAIN entries |-> entries[i].PersonData], {})

NestedOrganizations(publications) ==
    LET entries == PersonsArrays(publications)
        refs == Flatten([i \in DOMAIN entries |->
                    [j \in DOMAIN entries[i].Organizations |->
                        entries[i].Organizations[j].OrganizationData]])
    IN FirstByKey(refs, {})

PublicationIds(publications) ==
    LET ids == [i \in DOMAIN publications |-> publications[i]._id]
    IN SelectSeq(ids, LAMBDA x : x # None)

extract_nested_entities_from_publications(publications) ==
    [persons |-> NestedPersons(publications),
     organizations |-> NestedOrganizations(publications),
     publication_ids |-> PublicationIds(publications)]

(***************************************************************************)
(* transformers/es_transformer.py: ESRelationshipExtractor                 *)
(***************************************************************************)
extract_authorship_relationships(publications) ==
    Flatten([i \in DOMAIN publications |->
        LET pub == publications[i]
            pub_es_id == Or(pub._id, pub._source.Id)
            persons == pub._source.Persons
            each == [k \in DOMAIN persons |->
                        IF persons[k].PersonData.Id # None
                          THEN <<[sourceId |-> persons[k].PersonData.Id, targetId |-> pub_es_id,
                                  order |-> k - 1, role |-> "Author"]>>
                          ELSE <<>>]
        IN IF pub_es_id = None \/ pub_es_id = "" THEN <<>> ELSE Flatten(each)])

\* create_batch_relationships: all_persons, one entry per author occurrence
AllPersons(publications) ==
    LET entries == PersonsArrays(publications)
    IN SelectSeq([i \in DOMAIN entries |-> entries[i].PersonData], LAMBDA r : r.Id # None)

extract_affiliation_relationships(persons) ==
    Flatten([i \in DOMAIN persons |->
        LET homes == persons[i].OrganizationHome
            each == [k \in DOMAIN homes |->
                        IF homes[k].OrganizationData.Id # None
                          THEN <<[sourceId |-> persons[i].Id,
                                  targetId |-> homes[k].OrganizationData.Id,
                                  title |-> homes[k].TitleEng]>>
                          ELSE <<>>]
        IN IF persons[i].Id = None THEN <<>> ELSE Flatten(each)])

(***************************************************************************)
(* loaders/incremental_loader.py: EntityTracker                            *)
(***************************************************************************)
Labels == {"Publication", "Person", "Organization"}

\* load_existing_entities: the ids of the nodes the store holds
load_existing_entities(ns) == [l \in Labels |-> NodeIdsOf(ns, l)]

\* (mutant) no filter
get_new_entities_All(tr, entity_type, entities) == entities

\* get_new_entities
get_new_entities(tr, entity_type, entities) ==
    SelectSeq(entities, LAMBDA e : e.id # None /\ e.id \notin tr[entity_type])

\* mark_entity_loaded for each element of a list
MarkLoaded(tr, entity_type, entities) ==
    [tr EXCEPT ![entity_type] = @ \cup {entities[i].id : i \in DOMAIN entities}]

(***************************************************************************)
(* loaders/incremental_loader.py: the writes                               *)
(***************************************************************************)
\* (mutant) CREATE instead of MERGE
MergeNode_Create(existing, node) == Append(existing, node)

\* MERGE (n:Label {id: node.id}) SET n = node
MergeNode(existing, node) ==
    IF \E i \in DOMAIN existing : existing[i].id = node.id
      THEN [i \in DOMAIN existing |-> IF existing[i].id = node.id THEN node ELSE existing[i]]
      ELSE Append(existing, node)

RECURSIVE MergeNodes(_, _)
MergeNodes(existing, new_nodes) ==
    IF new_nodes = <<>> THEN existing
    ELSE MergeNodes(MergeNode(existing, Head(new_nodes)), Tail(new_nodes))

\* (mutant) the label is cleared before the batch is written
load_nodes_batch_Replace(ns, node_type, new_nodes, ok) ==
    IF new_nodes = <<>> \/ ~ok THEN ns
    ELSE [ns EXCEPT ![node_type] = MergeNodes(<<>>, new_nodes)]

\* load_nodes_batch; ok is FALSE when execute_write raises
load_nodes_batch(ns, node_type, new_nodes, ok) ==
    IF new_nodes = <<>> \/ ~ok THEN ns
    ELSE [ns EXCEPT ![node_type] = MergeNodes(@, new_nodes)]

\* (mutant) the AUTHORED upsert without its two MATCH clauses
MergeAuthored_NoMatch(ns, edges, rel) ==
    IF \E e \in edges : e.sourceId = rel.sourceId /\ e.targetId = rel.targetId
      THEN edges
      ELSE edges \cup {rel}

\* MATCH (p:Person) MATCH (pub:Publication) MERGE (p)-[r:AUTHORED]->(pub)
\* ON CREATE SET order, role; ON MATCH SET order only when it is null
MergeAuthored(ns, edges, rel) ==
    IF rel.sourceId \notin NodeIdsOf(ns, "Person") \/ rel.targetId \notin NodeIdsOf(ns, "Publication")
      THEN edges
    ELSE IF \E e \in edges : e.sourceId = rel.sourceId /\ e.targetId = rel.targetId
      THEN edges
      ELSE edges \cup {rel}

\* MATCH (p:Person) MATCH (o:Organization) MERGE (p)-[r:AFFILIATED_WITH]->(o)
\* ON CREATE SET title = rel.title; ON MATCH SET title = rel.title unless null
\* (endDate and priority are written exactly as title is)
MergeAffiliated(ns, edges, rel) ==
    IF rel.sourceId \notin NodeIdsOf(ns, "Person") \/ rel.targetId \notin NodeIdsOf(ns, "Organization")
      THEN edges
    ELSE IF \E e \in edges : e.sourceId = rel.sourceId /\ e.targetId = rel.targetId
      THEN {IF e.sourceId = rel.sourceId /\ e.targetId = rel.targetId /\ rel.title # None
              THEN [e EXCEPT !.title = rel.title] ELSE e : e \in edges}
      ELSE edges \cup {rel}

\* UNWIND $relationships AS rel
RECURSIVE MergeAuthoredEach(_, _, _)
MergeAuthoredEach(ns, edges, relationships) ==
    IF relationships = <<>> THEN edges
    ELSE MergeAuthoredEach(ns, MergeAuthored(ns, edges, Head(relationships)),
                           Tail(relationships))

RECURSIVE MergeAffiliatedEach(_, _, _)
MergeAffiliatedEach(ns, edges, relationships) ==
    IF relationships = <<>> THEN edges
    ELSE MergeAffiliatedEach(ns, MergeAffiliated(ns, edges, Head(relationships)),
                             Tail(relationships))

\* an edge without its properties
EdgeKeys(edges) == {<<e.sourceId, e.targetId>> : e \in edges}

(***************************************************************************)
(* loaders/incremental_loader.py: process_publication_batch and            *)
(* create_batch_relationships.  The five writes are issued in the order of *)
(* WriteOps; a write whose list is empty is not issued; a write in fails   *)
(* raises inside execute_write and leaves the store as it was; upto is the *)
(* number of writes reached before the batch is abandoned.                 *)
(***************************************************************************)
WriteOps == <<"Publication", "Person", "Organization", "AUTHORED", "AFFILIATED_WITH">>

\* (mutant) the five writes issued in the reverse order
Writes_Reversed(op, fails, upto) ==
    (Len(WriteOps) + 1) - Index(WriteOps, op) <= upto /\ op \notin fails

Writes(op, fails, upto) == Index(WriteOps, op) <= upto /\ op \notin fails

\* (mutant) a publication whose transform raises aborts the loop
PubNodes_AllOrNothing(publications) ==
    IF \E i \in DOMAIN publications : transform_publication(publications[i]) = <<>>
      THEN <<>>
      ELSE Flatten([i \in DOMAIN publications |-> transform_publication(publications[i])])

\* the transform loops: a record whose transform raises is left out
PubNodes(publications) ==
    Flatten([i \in DOMAIN publications |-> transform_publication(publications[i])])

PersonNodes(persons) == Flatten([i \in DOMAIN persons |-> transform_person(persons[i])])

OrgNodes(organizations) ==
    Flatten([i \in DOMAIN organizations |-> transform_organization(organizations[i])])

NewNodes(tr, publications) ==
    LET nested_entities == extract_nested_entities_from_publications(publications)
    IN [Publication |-> get_new_entities(tr, "Publication", PubNodes(publications)),
        Person |-> get_new_entities(tr, "Person", PersonNodes(nested_entities.persons)),
        Organization |-> get_new_entities(tr, "Organization",
                                          OrgNodes(nested_entities.organizations))]

\* the writes a batch issues
IssuedOps(tr, publications) ==
    {l \in Labels : NewNodes(tr, publications)[l] # <<>>}
    \cup (IF extract_authorship_relationships(publications) # <<>> THEN {"AUTHORED"} ELSE {})
    \cup (IF extract_affiliation_relationships(AllPersons(publications)) # <<>>
            THEN {"AFFILIATED_WITH"} ELSE {})

create_batch_relationships(st, publications, fails, upto) ==
    LET authorship_rels == extract_authorship_relationships(publications)
        affiliation_rels == extract_affiliation_relationships(AllPersons(publications))
    IN [st EXCEPT
          !.authored = IF Writes("AUTHORED", fails, upto)
                         THEN MergeAuthoredEach(st.nodes, @, authorship_rels) ELSE @,
          !.affiliated = IF Writes("AFFILIATED_WITH", fails, upto)
                           THEN MergeAffiliatedEach(st.nodes, @, affiliation_rels) ELSE @]

\* (mutant) relationships derived from the new publications only
process_publication_batch_NewOnly(st, publications, fails, upto) ==
    LET new == NewNodes(st.tracker, publications)
        n1 == load_nodes_batch(st.nodes, "Publication", new.Publication,
                               Writes("Publication", fails, upto))
        n2 == load_nodes_batch(n1, "Person", new.Person, Writes("Person", fails, upto))
        n3 == load_nodes_batch(n2, "Organization", new.Organization,
                               Writes("Organization", fails, upto))
        marked == MarkLoaded(MarkLoaded(MarkLoaded(st.tracker,
                      "Publication", new.Publication), "Person", new.Person),
                      "Organization", new.Organization)
    IN create_batch_relationships(
           [st EXCEPT !.nodes = n3, !.tracker = IF upto >= 3 THEN marked ELSE @],
           SelectSeq(publications, LAMBDA pub : pub._id \notin st.tracker.Publication),
           fails, upto)

\* (mutant) a failed Publication write abandons the rest of the batch
process_publication_batch_Abort(st, publications, fails, upto) ==
    LET cut == IF "Publication" \in fails THEN 0 ELSE upto
        new == NewNodes(st.tracker, publications)
        n1 == load_nodes_batch(st.nodes, "Publication", new.Publication,
                               Writes("Publication", fails, cut))
        n2 == load_nodes_batch(n1, "Person", new.Person, Writes("Person", fails, cut))
        n3 == load_nodes_batch(n2, "Organization", new.Organization,
                               Writes("Organization", fails, cut))
        marked == MarkLoaded(MarkLoaded(MarkLoaded(st.tracker,
                      "Publication", new.Publication), "Person", new.Person),
                      "Organization", new.Organization)
    IN create_batch_relationships(
           [st EXCEPT !.nodes = n3, !.tracker = IF cut >= 3 THEN marked ELSE @],
           publications, fails, cut)

\* st = [nodes, authored, affiliated, tracker]
process_publication_batch(st, publications, fails, upto) ==
    LET new == NewNodes(st.tracker, publications)
        n1 == load_nodes_batch(st.nodes, "Publication", new.Publication,
                               Writes("Publication", fails, upto))
        n2 == load_nodes_batch(n1, "Person", new.Person, Writes("Person", fails, upto))
        n3 == load_nodes_batch(n2, "Organization", new.Organization,
                               Writes("Organization", fails, upto))
        marked == MarkLoaded(MarkLoaded(MarkLoaded(st.tracker,
                      "Publication", new.Publication), "Person", new.Person),
                      "Organization", new.Organization)
    IN create_batch_relationships(
           [st EXCEPT !.nodes = n3, !.tracker = IF upto >= 3 THEN marked ELSE @],
           publications, fails, upto)

(***************************************************************************)
(* loaders/incremental_loader.py: run_incremental_loading.  Every run is a *)
(* new process: it reads the checkpoint file in __init__, fills the        *)
(* tracker from the store and then takes the batches of the generator.     *)
(***************************************************************************)
Store == [nodes |-> nodes, authored |-> authored, affiliated |-> affiliated, tracker |-> tracker]

SetStore(st) ==
    /\ nodes' = st.nodes
    /\ authored' = st.authored
    /\ affiliated' = st.affiliated
    /\ tracker' = st.tracker

\* (mutant) the checkpoint file is not read
load_progress_Fresh(f) == IdleProgress

\* load_progress
load_progress(f) == IF f = <<>> THEN IdleProgress ELSE f[1]

\* (mutant) the offset of the batch before
ProgressAfter_Lags(pr, start, batch_num, size, batch_docs) ==
    [last_processed_offset |-> start + ((batch_num - 1) * size),
     total_processed |-> pr.total_processed + Len(batch_docs),
     batches_completed |-> pr.batches_completed + 1]

\* (mutant) the offset advanced by one batch too many
ProgressAfter_Skips(pr, start, batch_num, size, batch_docs) ==
    [last_processed_offset |-> start + ((batch_num + 1) * size),
     total_processed |-> pr.total_processed + Len(batch_docs),
     batches_completed |-> pr.batches_completed + 1]

\* the progress update after a batch
ProgressAfter(pr, start, batch_num, size, batch_docs) ==
    [last_processed_offset |-> start + (batch_num * size),
     total_processed |-> pr.total_processed + Len(batch_docs),
     batches_completed |-> pr.batches_completed + 1]

\* (mutant) the handlers of run_incremental_loading without save_progress
SaveOnExit_Missing(f, pr) == f

\* save_progress in the except clauses and after the loop
SaveOnExit(f, pr) == <<pr>>

\* (mutant) save_progress after every batch
Checkpoint_Always(f, pr, batch_num, every) == <<pr>>

\* if batch_num % checkpoint_every == 0: save_progress()
Checkpoint(f, pr, batch_num, every) == IF batch_num % every = 0 THEN <<pr>> ELSE f

BatchRange == <<current_offset, EndOffset(current_offset, batch_size, Len(hits))>>

\* the writes of a batch in the order they are issued, up to the upto-th
IssuedLog(tr, publications, upto) ==
    SelectSeq(WriteOps, LAMBDA op : /\ op \in IssuedOps(tr, publications)
                                   /\ Index(WriteOps, op) <= upto)


Record(h, range) == IF Len(h) < MaxHist THEN Append(h, range) ELSE h

Ended(how, k) ==
    [run EXCEPT !.exit = how, !.start_offset = start_offset,
                !.completed = stats.batches_processed,
                !.on_cadence = (stats.batches_processed % checkpoint_every = 0),
                !.partial = @ \/ k < Len(WriteOps),
                !.abnormal = TRUE]

Sources == SeqsUpTo(Catalogue, MaxDocs)
RunCaps == {<<>>} \cup {<<n>> : n \in 1..MaxRunCap}

Init ==
    /\ hits \in Sources
    /\ batch_size \in 1..MaxDocs
    /\ max_batches = <<>> /\ checkpoint_every = 1
    /\ start_offset = 0 /\ batch_number = 0 /\ current_offset = 0 /\ yielded = <<>>
    /\ pc = "idle" /\ progress = IdleProgress /\ file = <<>> /\ stats = IdleStats
    /\ tracker = EmptyTracker /\ run = NoRun /\ hist = <<>>
    /\ nodes = NoNodes /\ partOf = {} /\ authored = {} /\ affiliated = {}
    /\ rels = <<>> /\ orgs = <<>> /\ hres = [op |-> "none"]

\* IncrementalDataLoader(...) and the start of run_incremental_loading
StartRun(cap, every) ==
    /\ pc = "idle"
    /\ run.started < MaxRuns
    /\ progress' = load_progress(file)
    /\ stats' = IdleStats
    /\ start_offset' = load_progress(file).last_processed_offset
    /\ tracker' = load_existing_entities(nodes)
    /\ max_batches' = cap
    /\ checkpoint_every' = every
    /\ batch_number' = 0
    /\ current_offset' = start_offset'
    /\ yielded' = <<>>
    /\ pc' = "running"
    /\ run' = [run EXCEPT !.started = @ + 1,
                          !.delivered_to = Min(load_progress(file).last_processed_offset, Len(hits))]
    /\ UNCHANGED <<nodes, partOf, authored, affiliated, hierVars, hits, batch_size, file, hist>>

\* one iteration of the loop: the generator yields, the batch is processed,
\* statistics and progress are updated and the checkpoint is written when due
ProcessBatch(fails) ==
    /\ pc = "running"
    /\ GenYields
    /\ GenAdvance
    /\ fails \subseteq IssuedOps(tracker, BatchDocs(hits, current_offset, batch_size))
    /\ run.write_failures + Cardinality(fails) <= MaxWriteFailures
    /\ LET batch_docs == BatchDocs(hits, current_offset, batch_size)
           batch_num == batch_number + 1
           pr == ProgressAfter(progress, start_offset, batch_num, batch_size, batch_docs)
       IN /\ SetStore(process_publication_batch(Store, batch_docs, fails, Len(WriteOps)))
          /\ stats' = [batches_processed |-> stats.batches_processed + 1,
                       total_publications_processed |->
                           stats.total_publications_processed + Len(batch_docs)]
          /\ progress' = pr
          /\ file' = Checkpoint(file, pr, batch_num, checkpoint_every)
    /\ hist' = IF fails = {} THEN Record(hist, BatchRange) ELSE hist
    /\ run' = [run EXCEPT !.write_failures = @ + Cardinality(fails),
                          !.delivered_to = BatchRange[2]]
    /\ UNCHANGED <<partOf, hierVars, hits, batch_size, max_batches, checkpoint_every,
                   start_offset, pc>>

\* the process ends and its memory with it
ProcessExit ==
    /\ pc' = "idle"
    /\ progress' = IdleProgress /\ stats' = IdleStats /\ tracker' = EmptyTracker
    /\ max_batches' = <<>> /\ checkpoint_every' = 1
    /\ start_offset' = 0 /\ batch_number' = 0 /\ current_offset' = 0 /\ yielded' = <<>>

\* the generator returns: final save
FinishRun ==
    /\ pc = "running"
    /\ ~GenYields
    /\ file' = SaveOnExit(file, progress)
    /\ ProcessExit
    /\ run' = [run EXCEPT !.exit = "completed", !.start_offset = start_offset,
                          !.completed = stats.batches_processed,
                          !.on_cadence = (stats.batches_processed % checkpoint_every = 0)]
    /\ UNCHANGED <<storeVars, hierVars, hits, batch_size, hist>>

\* the batch in flight is abandoned after k of its writes
Abandon(k) ==
    /\ pc = "running"
    /\ GenYields
    /\ LET st == process_publication_batch(Store,
                     BatchDocs(hits, current_offset, batch_size), {}, k)
       IN nodes' = st.nodes /\ authored' = st.authored /\ affiliated' = st.affiliated
    /\ hist' = IF k = Len(WriteOps) THEN Record(hist, BatchRange) ELSE hist
    /\ ProcessExit
    /\ UNCHANGED <<partOf, hierVars, hits, batch_size>>

\* KeyboardInterrupt while a batch is in flight: save_progress in the
\* handler, then the final save
Interrupt(k) ==
    /\ Abandon(k)
    /\ file' = SaveOnExit(file, progress)
    /\ run' = Ended("interrupted", k)

\* an exception leaves the loop (from the extraction before the first write
\* or from the relationship extraction between the later ones):
\* save_progress, then raise
Error(k) ==
    /\ Abandon(k)
    /\ file' = SaveOnExit(file, progress)
    /\ run' = Ended("error", k)

\* the process dies without running any handler
Kill(k) ==
    /\ Abandon(k)
    /\ file' = file
    /\ run' = Ended("killed", k)

\* OrganizationLoader.load_hierarchy_relationships on the same store
LoadHierarchy(relationships) ==
    /\ pc = "idle"
    /\ partOf = {}
    /\ partOf' = load_hierarchy_relationships(nodes, partOf, relationships).st.edges
    /\ UNCHANGED <<nodes, authored, affiliated, hierVars, readerVars, loaderVars, pc>>

StoreOrgIds == {"10", "20"}
HierarchyInputs ==
    SeqsUpTo({OrganizationHierarchy(c, p) : c \in StoreOrgIds, p \in StoreOrgIds}, 2)

Next ==
    \/ \E cap \in RunCaps, every \in 1..MaxEvery : StartRun(cap, every)
    \/ \E fails \in {{}} \cup {{op} : op \in Range(WriteOps)} : ProcessBatch(fails)
    \/ FinishRun
    \/ \E k \in 0..Len(WriteOps) : Interrupt(k)
    \/ \E k \in {0, 3, 4} : Error(k)
    \/ \E k \in 0..Len(WriteOps) : Kill(k)
    \/ \E relationships \in HierarchyInputs : LoadHierarchy(relationships)

Spec == Init /\ [][Next]_vars

\* the generator's side of an iteration on its own: "for batch_num,
\* batch_docs in stream_publication_batches(...)" resumes the generator.  It
\* is enabled exactly when ProcessBatch({}) is, and no step of Next is a
\* GenStep that is not a ProcessBatch({}) step.
GenStep ==
    /\ pc = "running"
    /\ GenYields
    /\ GenAdvance
    /\ UNCHANGED <<storeVars, hierVars, loaderVars, hits, batch_size, max_batches,
                   start_offset, pc>>

\* the loader keeps executing: while the generator can yield, the loop takes
\* the batch and processes it without a failed write, and when the generator
\* returns, the code after the loop runs.  Under [][Next]_vars the first
\* condition is WF_vars(ProcessBatch({})), its enabling condition read from
\* the generator.
SpecLive ==
    /\ Init /\ [][Next]_vars
    /\ WF_vars(GenStep \/ ProcessBatch({}))
    /\ WF_vars(FinishRun)

(***************************************************************************)
(* Graph helpers for the properties                                        *)
(***************************************************************************)
Succ(E, S) == {e[2] : e \in {x \in E : x[1] \in S}}

RECURSIVE Closure(_, _)
Closure(E, S) == LET n == S \cup Succ(E, S) IN IF n = S THEN S ELSE Closure(E, n)

\* a directed path of one or more edges of E leads from a to b
HasPath(E, a, b) == b \in Closure(E, Succ(E, {a}))

EdgeSet(relationships) ==
    {<<relationships[i].childId, relationships[i].parentId>> : i \in DOMAIN relationships}

ParentMapEdges(relationships) ==
    {<<c, ParentMap(relationships)[c]>> : c \in DOMAIN ParentMap(relationships)}

IsThreeCycle(relationships) ==
    /\ Len(relationships) = 3
    /\ \E a, b, c \in OrgIds :
          /\ Cardinality({a, b, c}) = 3
          /\ EdgeSet(relationships) = {<<a, b>>, <<b, c>>, <<c, a>>}

(***************************************************************************)
(* Properties of the hierarchy operations (SpecHier)                       *)
(***************************************************************************)

\* C4 (as claimed): after load_hierarchy_relationships has loaded a candidate
\* list into a store with no PART_OF edge, the persisted PART_OF relation has
\* no self-loop and no directed cycle.
C4_PersistedPartOfAcyclic ==
    hres.op = "load" => \A o \in OrgIds : <<o, o>> \notin partOf /\ ~HasPath(partOf, o, o)

\* C7: validate_hierarchy reports exactly one CRITICAL diagnostic for each
\* self-referential edge (as many CRITICAL messages naming o as there are
\* edges o -> o, and no other CRITICAL message), and the lists produced by
\* extract_hierarchy_relationships and by the cleaning step of
\* load_hierarchy_relationships hold no self-referential edge.
C7_SelfReferences ==
    /\ hres.op = "validate" =>
          LET errors == hres.result.errors
              critical == {i \in DOMAIN errors : HasTag(errors[i], "CRITICAL:")}
          IN /\ \A o \in OrgIds :
                  Cardinality({i \in critical : errors[i].ids = <<o>>})
                    = Cardinality({i \in DOMAIN rels : rels[i] = OrganizationHierarchy(o, o)})
             /\ \A i \in critical : \E o \in OrgIds : errors[i].ids = <<o>>
    /\ hres.op = "extract" => \A i \in DOMAIN hres.out : ~IsSelfRef(hres.out[i])
    /\ hres.op = "load" => \A i \in DOMAIN hres.cleaned : ~IsSelfRef(hres.cleaned[i])

\* C7 witness: a validated list with the same self-referential edge twice
C7_Witness ==
    /\ hres.op = "validate"
    /\ \E i, j \in DOMAIN rels : i # j /\ rels[i] = rels[j] /\ IsSelfRef(rels[i])
    /\ Len(CriticalErrors(hres.result.errors)) = 2

\* C8 (as claimed): for an edge list that is a cycle A -> B -> C -> A,
\* validate_hierarchy reports a cycle diagnostic naming A, B and C, and the
\* cleaned list that is loaded, and the PART_OF relation persisted from it
\* (A, B and C being organizations of the store), hold no path from a node
\* back to itself.
C8_CycleReportedAndRemoved ==
    IsThreeCycle(rels) =>
      /\ hres.op = "validate" =>
            \E i \in DOMAIN hres.result.errors :
               /\ hres.result.errors[i].what = "Cycle detected"
               /\ Range(hres.result.errors[i].ids) = OrgIds
      /\ hres.op = "chalmers" => \A o \in OrgIds : ~HasPath(EdgeSet(hres.out), o, o)
      /\ hres.op = "load" /\ NodeIdsOf(nodes, "Organization") = OrgIds =>
            \A o \in OrgIds : ~HasPath(EdgeSet(hres.cleaned), o, o) /\ ~HasPath(partOf, o, o)

\* C9: is_valid is true exactly when the list has no self-referential edge
\* and the last-seen-parent map has no cycle, which is exactly when no
\* self-reference and no cycle diagnostic is reported; a WARNING alone and
\* the empty list leave it true.
C9_IsValidIffNoCritical ==
    hres.op = "validate" =>
      LET errors == hres.result.errors
      IN /\ hres.result.is_valid <=>
              /\ \A i \in DOMAIN rels : ~IsSelfRef(rels[i])
              /\ \A o \in OrgIds : ~HasPath(ParentMapEdges(rels), o, o)
         /\ hres.result.is_valid <=>
              \A i \in DOMAIN errors :
                 errors[i].what \notin {"Self-reference detected", "Cycle detected"}
         /\ rels = <<>> => hres.result.is_valid /\ errors = <<>>

\* C9 witness: a list whose only diagnostic is the multi-parent WARNING
C9_Witness ==
    /\ hres.op = "validate"
    /\ hres.result.is_valid
    /\ Len(hres.result.errors) = 1
    /\ HasTag(hres.result.errors[1], "WARNING:")

(***************************************************************************)
(* Properties of the batch reader (SpecStream)                             *)
(***************************************************************************)

\* C10: the batches yielded are numbered 1, 2, ...; batch i is the slice of
\* the source from start_offset + (i-1)*batch_size, of exactly batch_size
\* records unless the source ends there; and when the generator returns it
\* has either delivered every record from start_offset on or exactly
\* max_batches batches.
C10_Batches ==
    LET total == Len(hits)
        lo(i) == start_offset + (i - 1) * batch_size
    IN /\ \A i \in DOMAIN yielded :
            /\ yielded[i].batch_number = i
            /\ yielded[i].batch_docs = [j \in 1..(Min(lo(i) + batch_size, total) - lo(i)) |-> hits[lo(i) + j]]
            /\ Len(yielded[i].batch_docs) >= 1
            /\ Len(yielded[i].batch_docs) = batch_size \/ lo(i) + Len(yielded[i].batch_docs) = total
       /\ pc = "done" =>
            \/ /\ start_offset >= total
               /\ yielded = <<>>
            \/ /\ start_offset < total
               /\ Flatten([i \in DOMAIN yielded |-> yielded[i].batch_docs])
                    = [j \in 1..(total - start_offset) |-> hits[start_offset + j]]
            \/ /\ max_batches # <<>>
               /\ Len(yielded) = max_batches[1]

\* C10 witness: a resumed stream that ended with a short last batch
C10_Witness ==
    /\ pc = "done"
    /\ start_offset > 0
    /\ Len(yielded) >= 2
    /\ Len(yielded[Len(yielded)].batch_docs) < batch_size

(***************************************************************************)
(* Properties of the incremental loader (Spec)                             *)
(***************************************************************************)
Graph == [nodes |-> nodes, authored |-> authored, affiliated |-> affiliated]

NoFault == ~run.partial /\ run.write_failures = 0

\* C1: when two different batches B1 and B2 have been processed completely
\* and B1 is then processed completely once more, the replay leaves nodes,
\* AUTHORED edges and AFFILIATED_WITH edges with their properties as they were.
C1_ReplayLeavesStore ==
    [][(/\ NoFault
        /\ Len(hist) = 2
        /\ hist[1] # hist[2]
        /\ hist' = Append(hist, hist[1]))
       => (nodes' = nodes /\ authored' = authored /\ affiliated' = affiliated)]_vars

\* one uncapped pass over the records before offset limit, from an empty store
RECURSIVE OnePass(_, _, _)
OnePass(st, offset, limit) ==
    IF offset >= Min(limit, Len(hits)) THEN st
    ELSE OnePass(process_publication_batch(st, BatchDocs(hits, offset, batch_size), {},
                                           Len(WriteOps)),
                 offset + batch_size, limit)

EmptyStore == [nodes |-> NoNodes, authored |-> {}, affiliated |-> {}, tracker |-> EmptyTracker]

\* C2: after runs that all ended normally with every write successful, the
\* store equals the store one uncapped run from offset 0 produces over the
\* records up to the checkpoint offset; once the checkpoint has reached the
\* end of the source that is the whole source.
C2_RunsEqualOnePass ==
    (pc = "idle" /\ run.started >= 1 /\ ~run.abnormal /\ run.write_failures = 0)
    => /\ file # <<>>
       /\ LET one == OnePass(EmptyStore, 0, file[1].last_processed_offset)
          IN Graph = [nodes |-> one.nodes, authored |-> one.authored,
                      affiliated |-> one.affiliated]

\* C2 witness: a capped first run of one batch, then a second run that took
\* the source to its end
C2_Witness ==
    /\ pc = "idle" /\ ~run.abnormal /\ run.write_failures = 0
    /\ run.started = 2
    /\ run.start_offset = batch_size /\ run.completed >= 1
    /\ file # <<>> /\ file[1].last_processed_offset >= Len(hits)
    /\ authored # {} /\ affiliated # {}

\* C3: after a run ended by KeyboardInterrupt or by an exception with k
\* batches completed, the checkpoint file holds start_offset + k * batch_size,
\* and the run after it starts streaming there.
C3_CheckpointOnExit ==
    run.exit \in {"interrupted", "error"} =>
        LET reached == run.start_offset + (run.completed * batch_size)
        IN /\ pc = "idle" => (file # <<>> /\ file[1].last_processed_offset = reached)
           /\ pc = "running" => (start_offset = reached /\ current_offset >= reached)

\* C3 witness: the run after an interrupt that came off the checkpoint
\* cadence, one batch after the start of the interrupted run
C3_Witness ==
    /\ run.exit = "interrupted" /\ run.completed = 1 /\ ~run.on_cadence
    /\ pc = "running" /\ start_offset = run.start_offset + batch_size
    /\ start_offset < Len(hits)

AllRecords == [i \in DOMAIN hits |-> hits[i]]

\* the nodes the transformers can make of the records of the source
Transformable ==
    [Publication |-> Range(PubNodes(AllRecords)),
     Person |-> Range(PersonNodes(
                    [i \in DOMAIN PersonsArrays(AllRecords) |->
                        PersonsArrays(AllRecords)[i].PersonData])),
     Organization |-> Range(OrgNodes(
                    Flatten([i \in DOMAIN PersonsArrays(AllRecords) |->
                        [j \in DOMAIN PersonsArrays(AllRecords)[i].Organizations |->
                            PersonsArrays(AllRecords)[i].Organizations[j].OrganizationData]])))]

\* C5: every AUTHORED, AFFILIATED_WITH and PART_OF edge joins two nodes of
\* the store, and every node of the store is the transform of a record of
\* the source (none is a placeholder made for an edge).
C5_EdgesJoinNodes ==
    /\ \A e \in authored : /\ e.sourceId \in NodeIdsOf(nodes, "Person")
                           /\ e.targetId \in NodeIdsOf(nodes, "Publication")
    /\ \A e \in affiliated : /\ e.sourceId \in NodeIdsOf(nodes, "Person")
                             /\ e.targetId \in NodeIdsOf(nodes, "Organization")
    /\ \A e \in partOf : /\ e[1] \in NodeIdsOf(nodes, "Organization")
                         /\ e[2] \in NodeIdsOf(nodes, "Organization")
    /\ \A l \in Labels : Range(nodes[l]) \subseteq Transformable[l]

\* the batches processed completely
Processed == {Slice(hits, hist[i][1], hist[i][2]) : i \in DOMAIN hist}

\* C5 witness: batches were processed completely, an AUTHORED and an
\* AFFILIATED_WITH candidate of theirs lack an endpoint, other edges of all
\* three kinds exist
C5_Witness ==
    /\ pc = "idle" /\ NoFault
    /\ \E b \in Processed : \E r \in Range(extract_authorship_relationships(b)) :
           r.sourceId \notin NodeIdsOf(nodes, "Person")
    /\ \E b \in Processed :
           \E r \in Range(extract_affiliation_relationships(AllPersons(b))) :
               r.targetId \notin NodeIdsOf(nodes, "Organization")
    /\ authored # {} /\ affiliated # {} /\ partOf # {}

\* C6: the store holds at most one node per label and id.
C6_OneNodePerId ==
    \A l \in Labels : \A i, j \in DOMAIN nodes[l] :
        nodes[l][i].id = nodes[l][j].id => i = j

\* C6 witness: a batch carrying the same publication id twice was processed
\* completely and a batch was processed a second time
C6_Witness ==
    /\ NoFault
    /\ \E i \in DOMAIN hist :
          LET ns == PubNodes(Slice(hits, hist[i][1], hist[i][2]))
          IN \E a, b \in DOMAIN ns : a # b /\ ns[a].id = ns[b].id
    /\ \E i, j \in DOMAIN hist : i # j /\ hist[i] = hist[j]

\* C11: the run that follows a run ended by KeyboardInterrupt or by an
\* exception starts streaming at the record after the last record of the last
\* batch that run completed (run.delivered_to is the generator's end_offset
\* of that batch): nothing is skipped, nothing completed is delivered again.
C11_ResumeIsExact ==
    [][(pc = "idle" /\ pc' = "running" /\ run.exit \in {"interrupted", "error"})
       => Min(current_offset', Len(hits)) = run.delivered_to]_vars

\* C11 witness: a run was interrupted after its first batch and the run
\* after it has been handed the second record as its first
C11_Witness ==
    /\ pc = "running" /\ run.exit = "interrupted" /\ run.completed = 1
    /\ Len(hits) = 2 /\ hits[1] # hits[2] /\ batch_size = 1
    /\ Len(yielded) = 1 /\ yielded[1].batch_docs = <<hits[2]>>

\* C12: a run whose starting offset is at or beyond the end of the source is
\* handed no batch and can only end normally: that step writes nothing to the
\* store and saves last_processed_offset, total_processed and
\* batches_completed as they were loaded.
C12_OffsetBeyondSource ==
    [][(pc = "running" /\ start_offset >= Len(hits))
       => /\ yielded = <<>> /\ progress = load_progress(file)
          /\ pc' = "idle" /\ run'.exit = "completed" /\ run'.completed = 0
          /\ nodes' = nodes /\ authored' = authored /\ affiliated' = affiliated
          /\ partOf' = partOf
          /\ file' = <<load_progress(file)>>]_vars

\* C12 witness: a second run found the checkpoint at or beyond the end of a
\* source that is not empty, and has ended
C12_Witness ==
    /\ pc = "idle" /\ run.started = 2 /\ run.exit = "completed" /\ run.completed = 0
    /\ Len(hits) > 0 /\ run.start_offset >= Len(hits)
    /\ file # <<>> /\ file[1].last_processed_offset = run.start_offset

\* a step of the loop in which a store write raised
WriteFailedInStep == pc = "running" /\ run'.write_failures > run.write_failures

\* C13: a batch in which a store write failed does not advance
\* last_processed_offset, neither in memory nor in the checkpoint file.
C13_NoAdvancePastFailedWrite ==
    [][WriteFailedInStep
       => /\ progress'.last_processed_offset = progress.last_processed_offset
          /\ load_progress(file').last_processed_offset
               = load_progress(file).last_processed_offset]_vars

\* C14: every id the tracker holds for a label is the id of a node of that
\* label in the store.
C14_TrackerWithinStore ==
    \A l \in Labels : tracker[l] \subseteq NodeIdsOf(nodes, l)

\* C15: when a store write of a batch raises, the run saves the checkpoint
\* and ends with the failure; the loop is not continued.
C15_HaltOnStoreFailure ==
    [][WriteFailedInStep
       => /\ pc' = "idle" /\ run'.exit = "error"
          /\ file' # <<>>]_vars

\* the ids the records of a list transform to
IdsOf(transformed) == {t[1].id : t \in {x \in Range(transformed) : x # <<>>}}

MaxBatchDocs == 3
MaxMarks == 2

\* q3: its first author entry has no Id, its second is p2
DocE == Hit("q3", None, "t4", 2022,
            <<Author(None, "n0", <<>>, <<>>), Author("p2", "n2", <<>>, <<>>)>>)
\* q4 by p1, without affiliation
DocF == Hit("q4", None, "t5", 2023, <<Author("p1", "n1", <<>>, <<>>)>>)

BatchCatalogue == Catalogue \cup {DocE, DocF}
Batches == SeqsUpTo(BatchCatalogue, MaxBatchDocs)

\* the nodes of a store that earlier batches were written to
LoadedFrom(publications) ==
    LET nested_entities == extract_nested_entities_from_publications(publications)
    IN [Publication |-> MergeNodes(<<>>, PubNodes(publications)),
        Person |-> MergeNodes(<<>>, PersonNodes(nested_entities.persons)),
        Organization |-> MergeNodes(<<>>, OrgNodes(nested_entities.organizations))]

BatchStores == {LoadedFrom(<<>>), LoadedFrom(<<DocA>>)}

\* the candidates process_publication_batch hands to the filter
CandidatesOf(entity_type, publications) ==
    LET nested_entities == extract_nested_entities_from_publications(publications)
    IN CASE entity_type = "Publication" -> PubNodes(publications)
         [] entity_type = "Person" -> PersonNodes(nested_entities.persons)
         [] entity_type = "Organization" -> OrgNodes(nested_entities.organizations)

\* the ids marked since hydration
Marked == UNION {{<<l, id>> : id \in tracker[l] \ NodeIdsOf(nodes, l)} : l \in Labels}

BatchInit ==
    /\ hits \in Batches
    /\ nodes \in BatchStores
    /\ tracker = load_existing_entities(nodes)
    /\ hres = [op |-> "none"]
    /\ batch_size = 1 /\ max_batches = <<>> /\ checkpoint_every = 1
    /\ start_offset = 0 /\ batch_number = 0 /\ current_offset = 0 /\ yielded = <<>>
    /\ pc = "idle" /\ progress = IdleProgress /\ file = <<>> /\ stats = IdleStats
    /\ run = NoRun /\ hist = <<>>
    /\ partOf = {} /\ authored = {} /\ affiliated = {}
    /\ rels = <<>> /\ orgs = <<>>

\* streaming_loader.extract_nested_entities_from_publications(batch)
BNested ==
    /\ hres' = [op |-> "nested", out |-> extract_nested_entities_from_publications(hits)]
    /\ UNCHANGED <<storeVars, rels, orgs, readerVars, loaderVars, pc>>

\* ESRelationshipExtractor.extract_authorship_relationships(batch)
BAuthorship ==
    /\ hres' = [op |-> "authorship", out |-> extract_authorship_relationships(hits)]
    /\ UNCHANGED <<storeVars, rels, orgs, readerVars, loaderVars, pc>>

\* entity_tracker.get_new_entities(entity_type, candidates)
BFilter(entity_type) ==
    LET candidates == CandidatesOf(entity_type, hits)
    IN /\ hres' = [op |-> "filter", entity_type |-> entity_type, candidates |-> candidates,
                   out |-> get_new_entities(tracker, entity_type, candidates),
                   tracker_before |-> tracker]
       /\ UNCHANGED <<storeVars, rels, orgs, readerVars, loaderVars, pc>>

\* entity_tracker.mark_entity_loaded(entity_type, entity['id'])
BMark(entity_type, i) ==
    LET candidates == CandidatesOf(entity_type, hits)
    IN /\ i \in DOMAIN candidates
       /\ candidates[i].id \notin tracker[entity_type]
       /\ Cardinality(Marked) < MaxMarks
       /\ tracker' = MarkLoaded(tracker, entity_type, <<candidates[i]>>)
       /\ hres' = [op |-> "mark"]
       /\ UNCHANGED <<storeVars, rels, orgs, readerVars, pc, checkpoint_every, progress,
                      file, stats, run, hist>>

\* the statistics process_publication_batch returns: the counters are those
\* of the write summaries (nodes_created, relationships_created), 0 for a
\* write that raised
batch_stats(st, publications, fails) ==
    LET after == process_publication_batch(st, publications, fails, Len(WriteOps))
        new == NewNodes(st.tracker, publications)
        nested_entities == extract_nested_entities_from_publications(publications)
    IN [publications_in_batch |-> Len(publications),
        new_nodes_created |->
            (Len(after.nodes.Publication) - Len(st.nodes.Publication))
            + (Len(after.nodes.Person) - Len(st.nodes.Person))
            + (Len(after.nodes.Organization) - Len(st.nodes.Organization)),
        new_relationships_created |->
            Cardinality(EdgeKeys(after.authored) \ EdgeKeys(st.authored))
            + Cardinality(EdgeKeys(after.affiliated) \ EdgeKeys(st.affiliated)),
        skipped_duplicates |->
            (Len(PubNodes(publications)) - Len(new.Publication))
            + (Len(PersonNodes(nested_entities.persons)) - Len(new.Person))
            + (Len(OrgNodes(nested_entities.organizations)) - Len(new.Organization))]

\* process_publication_batch(batch) as the first call on the hydrated tracker
BProcess(fails) ==
    /\ hres.op = "none"
    /\ hits # <<>>
    /\ fails \subseteq IssuedOps(tracker, hits)
    /\ SetStore(process_publication_batch(Store, hits, fails, Len(WriteOps)))
    /\ hres' = [op |-> "process", before |-> Store, fails |-> fails,
                issued |-> IssuedLog(tracker, hits, Len(WriteOps)),
                batch_stats |-> batch_stats(Store, hits, fails)]
    /\ UNCHANGED <<partOf, rels, orgs, readerVars, pc, checkpoint_every, progress,
                   file, stats, run, hist>>

BatchNext ==
    \/ \E fails \in {{}} \cup {{op} : op \in Range(WriteOps)} : BProcess(fails)
    \/ BNested
    \/ BAuthorship
    \/ \E entity_type \in Labels : BFilter(entity_type)
    \/ \E entity_type \in Labels, i \in 1..(2 * MaxBatchDocs) : BMark(entity_type, i)

SpecBatch == BatchInit /\ [][BatchNext]_vars

\* the author entries of a batch that carry an Id, as <<record, position>>
\* pairs (both one-based)
AuthorEntries(publications) ==
    {dk \in (DOMAIN publications) \X (1..4) :
        /\ dk[2] \in DOMAIN publications[dk[1]]._source.Persons
        /\ publications[dk[1]]._source.Persons[dk[2]].PersonData.Id # None}

Before(a, b) == a[1] < b[1] \/ (a[1] = b[1] /\ a[2] < b[2])

\* C17: the nested extraction returns one person record per distinct person
\* Id of the batch, the record of the Id's first occurrence; the authorship
\* extraction yields, in the order of the batch, one candidate per
\* (publication record, author entry with an Id), whose source is the
\* entry's Id, whose target is the publication's id and whose order is the
\* entry's zero-based position in the publication's author list.
C17_PersonsOncePerIdAuthoredPerEntry ==
    LET entries == AuthorEntries(hits)
        data(dk) == hits[dk[1]]._source.Persons[dk[2]].PersonData
    IN /\ hres.op = "nested" =>
            LET persons == hres.out.persons
            IN /\ \A i, j \in DOMAIN persons : persons[i].Id = persons[j].Id => i = j
               /\ {persons[i].Id : i \in DOMAIN persons} = {data(dk).Id : dk \in entries}
               /\ \A i \in DOMAIN persons : \E dk \in entries :
                     /\ persons[i] = data(dk)
                     /\ \A e \in entries : Before(e, dk) => data(e).Id # persons[i].Id
       /\ hres.op = "authorship" =>
            LET out == hres.out
            IN /\ Len(out) = Cardinality(entries)
               /\ \A dk \in entries :
                     LET r == out[Cardinality({e \in entries : Before(e, dk)}) + 1]
                     IN /\ r.sourceId = data(dk).Id
                        /\ r.targetId = hits[dk[1]]._id
                        /\ r.order = dk[2] - 1

\* C17 witness: a batch of 3 publications with 2 distinct persons, one of
\* them on 2 publications and one after an author entry without Id, has
\* gone through either extraction: 2 persons, 3 candidates
C17_Witness ==
    /\ Len(hits) = 3
    /\ \A i, j \in DOMAIN hits : hits[i]._id = hits[j]._id => i = j
    /\ Cardinality(AuthorEntries(hits)) = 3
    /\ \E dk \in AuthorEntries(hits) : dk[2] = 2
    /\ \/ hres.op = "nested" /\ Len(hres.out.persons) = 2
       \/ /\ hres.op = "authorship" /\ Len(hres.out) = 3
          /\ \E i \in DOMAIN hres.out : hres.out[i].order = 1
          /\ Cardinality({hres.out[i].sourceId : i \in DOMAIN hres.out}) = 2

\* C18: no ID occurs twice in the persons, the organizations or the
\* publication_ids returned by the nested extraction.
C18_NoIdTwice ==
    hres.op = "nested" =>
        /\ \A i, j \in DOMAIN hres.out.persons :
              hres.out.persons[i].Id = hres.out.persons[j].Id => i = j
        /\ \A i, j \in DOMAIN hres.out.organizations :
              hres.out.organizations[i].Id = hres.out.organizations[j].Id => i = j
        /\ \A i, j \in DOMAIN hres.out.publication_ids :
              hres.out.publication_ids[i] = hres.out.publication_ids[j] => i = j

\* the positions of the candidates the tracker does not know
Unknown(entity_type, candidates) ==
    {i \in DOMAIN candidates :
        /\ candidates[i].id \notin NodeIdsOf(nodes, entity_type)
        /\ <<entity_type, candidates[i].id>> \notin Marked}

C20_LaterRecordWins ==
    [][(pc = "running" /\ batch_number' = batch_number + 1 /\ run'.write_failures = 0)
       => LET seen == PubNodes(BatchDocs(hits, current_offset, batch_size))
          IN \A i \in DOMAIN seen :
                (/\ seen[i].id \in NodeIdsOf(nodes, "Publication")
                 /\ \A j \in DOMAIN seen : j > i => seen[j].id # seen[i].id)
                => /\ seen[i] \in Range(nodes'.Publication)
                   /\ NodeIdsOf(nodes, "Publication") \subseteq NodeIdsOf(nodes', "Publication")]_vars

\* C21: no step removes a node or an edge: the node ids of every kind and
\* the edges of every type of the store only grow, within a run and from
\* one run to the next.
C21_StoreOnlyGrows ==
    [][/\ \A l \in Labels : NodeIdsOf(nodes, l) \subseteq NodeIdsOf(nodes', l)
       /\ EdgeKeys(authored) \subseteq EdgeKeys(authored')
       /\ EdgeKeys(affiliated) \subseteq EdgeKeys(affiliated')
       /\ partOf \subseteq partOf']_vars

\* C21 witness: a second run has written a batch to a store that an
\* earlier run had left nodes and edges in
C21_Witness ==
    /\ run.started = 2 /\ pc = "running" /\ batch_number = 1
    /\ start_offset > 0
    /\ Len(nodes.Publication) = 2 /\ Len(nodes.Person) = 2
    /\ Cardinality(authored) >= 2 /\ affiliated # {}

\* C22: when a batch is processed and the AUTHORED write does not fail,
\* every AUTHORED candidate of the batch whose person and publication were
\* in the store before the batch (so that neither passes the filter) is an
\* edge of the store afterwards.
C22_EdgesForKnownEndpoints ==
    (hres.op = "process" /\ "AUTHORED" \notin hres.fails) =>
        \A r \in Range(extract_authorship_relationships(hits)) :
            (/\ r.sourceId \in NodeIdsOf(hres.before.nodes, "Person")
             /\ r.targetId \in NodeIdsOf(hres.before.nodes, "Publication"))
            => <<r.sourceId, r.targetId>> \in EdgeKeys(authored)

\* C22 witness: the store held the person and the publication of a
\* candidate but not the edge, the batch had no new node, and the edge is
\* there after the batch
C22_Witness ==
    /\ hres.op = "process" /\ hres.fails = {}
    /\ hres.before.authored = {}
    /\ \A l \in Labels : NewNodes(hres.before.tracker, hits)[l] = <<>>
    /\ \E r \in Range(extract_authorship_relationships(hits)) :
          /\ r.sourceId \in NodeIdsOf(hres.before.nodes, "Person")
          /\ r.targetId \in NodeIdsOf(hres.before.nodes, "Publication")
          /\ <<r.sourceId, r.targetId>> \in EdgeKeys(authored)

\* the candidates of a list whose two endpoints the store holds
Accepted(ns, relationships, target_label) ==
    {i \in DOMAIN relationships :
        /\ relationships[i].sourceId \in NodeIdsOf(ns, "Person")
        /\ relationships[i].targetId \in NodeIdsOf(ns, target_label)}

\* the number of rejected candidates the statistics of a batch report:
\* batch_stats has no such entry and nothing is printed for them
ReportedRejections(stats_of_batch) == 0

\* C23: for a batch processed without a failed write, the number of
\* derived relationship candidates equals the number of candidates whose
\* edge was created or matched plus the number of reported rejections.
C23_RejectionsCounted ==
    (hres.op = "process" /\ hres.fails = {}) =>
        LET authorship_rels == extract_authorship_relationships(hits)
            affiliation_rels == extract_affiliation_relationships(AllPersons(hits))
        IN Len(authorship_rels) + Len(affiliation_rels)
             = Cardinality(Accepted(nodes, authorship_rels, "Publication"))
               + Cardinality(Accepted(nodes, affiliation_rels, "Organization"))
               + ReportedRejections(hres.batch_stats)

(***************************************************************************)
(* models/person.py: PersonBase.validate_orcid_format                      *)
(* A string is a sequence of characters; an occurrence of one of the two   *)
(* URL prefixes is a single element.  hres holds the value handed to the   *)
(* validator and what it returned (<<v>>, or <<>> where it raises).        *)
(***************************************************************************)
MaxOrcidLen == 20
MinOrcidLen == 15
MaxDashes == 3

HttpsPrefix == "https://orcid.org/"
HttpPrefix == "http://orcid.org/"

\* str.replace(old, '')
Without(v, old) == SelectSeq(v, LAMBDA c : c # old)

RECURSIVE LStrip(_)
LStrip(v) == IF v # <<>> /\ Head(v) = " " THEN LStrip(Tail(v)) ELSE v

RECURSIVE RStrip(_)
RStrip(v) == IF v # <<>> /\ v[Len(v)] = " " THEN RStrip(SubSeq(v, 1, Len(v) - 1)) ELSE v

\* str.strip()
Strip(v) == RStrip(LStrip(v))

\* str.count('-')
CountDashes(v) == Cardinality({i \in DOMAIN v : v[i] = "-"})

\* v.replace('https://orcid.org/', '').replace('http://orcid.org/', '').strip()
Cleaned(v) == Strip(Without(Without(v, HttpsPrefix), HttpPrefix))

validate_orcid_format(v) ==
    LET c == Cleaned(v)
    IN IF Len(c) = 19 /\ CountDashes(c) = 3 THEN <<c>>
       ELSE IF Len(c) = 16 /\ CountDashes(c) = 0
         THEN <<SubSeq(c, 1, 4) \o <<"-">> \o SubSeq(c, 5, 8) \o <<"-">>
                \o SubSeq(c, 9, 12) \o <<"-">> \o SubSeq(c, 13, 16)>>
       ELSE <<>>

\* the values handed to the validator: n characters with dashes at the
\* positions of D, behind an optional URL prefix, before an optional blank
OrcidBody(n, D) == [i \in 1..n |-> IF i \in D THEN "-" ELSE "0"]

DashPlacings(n) == {D \in SUBSET (1..n) : Cardinality(D) <= MaxDashes}

OrcidInit ==
    /\ \E n \in MinOrcidLen..MaxOrcidLen : \E D \in DashPlacings(n) :
          \E pre \in {<<>>, <<HttpsPrefix>>, <<HttpPrefix>>}, post \in {<<>>, <<" ">>} :
             hres = [op |-> "orcid_input", v |-> pre \o OrcidBody(n, D) \o post]
    /\ LoaderUnused
    /\ nodes = NoNodes /\ partOf = {} /\ rels = <<>> /\ orgs = <<>>

\* PersonCreate(orcid=v): the field validator runs
OValidate ==
    /\ hres.op = "orcid_input"
    /\ hres' = [op |-> "orcid", v |-> hres.v, out |-> validate_orcid_format(hres.v)]
    /\ UNCHANGED <<storeVars, partOf, rels, orgs, readerVars, loaderVars, pc>>

\* the accepted value is validated again (validate_assignment, or a node
\* read back and re-validated)
ORevalidate ==
    /\ hres.op = "orcid"
    /\ hres.out # <<>>
    /\ hres' = [op |-> "orcid_again", v |-> hres.v, out |-> hres.out,
                again |-> validate_orcid_format(hres.out[1])]
    /\ UNCHANGED <<storeVars, partOf, rels, orgs, readerVars, loaderVars, pc>>

OrcidNext == OValidate \/ ORevalidate

SpecOrcid == OrcidInit /\ [][OrcidNext]_vars

\* XXXX-XXXX-XXXX-XXXX: four groups of four characters, three dashes
IsDashedOrcid(v) ==
    /\ Len(v) = 19
    /\ \A i \in 1..19 : (v[i] = "-") <=> (i \in {5, 10, 15})

\* C24: after the URL prefixes are stripped the validator accepts exactly
\* the values XXXX-XXXX-XXXX-XXXX (returned unchanged) and the values of 16
\* characters without a dash (returned with a dash after every fourth
\* character); every accepted result has the form XXXX-XXXX-XXXX-XXXX and
\* validating it again returns it unchanged.
C24_OrcidShape ==
    hres.op \in {"orcid", "orcid_again"} =>
        LET c == Cleaned(hres.v)
            undashed == Len(c) = 16 /\ \A i \in 1..16 : c[i] # "-"
        IN /\ (hres.out # <<>>) <=> (IsDashedOrcid(c) \/ undashed)
           /\ IsDashedOrcid(c) => hres.out = <<c>>
           /\ undashed =>
                /\ hres.out # <<>> /\ IsDashedOrcid(hres.out[1])
                /\ Without(hres.out[1], "-") = c
           /\ hres.out # <<>> => IsDashedOrcid(hres.out[1])
           /\ hres.op = "orcid_again" => hres.again = hres.out

\* the ids of a list of nodes
NodeIds(node_list) == {node_list[i].id : i \in DOMAIN node_list}

\* C25: (a) in a batch processed without a failed write, every AUTHORED and
\* AFFILIATED_WITH candidate with an endpoint that this batch writes as a
\* new node, and both endpoints in the store afterwards, is an edge
\* afterwards: the node upserts have returned when the edge upserts run;
\* (b) when a batch is abandoned after an edge upsert, all three node
\* upserts of that batch have been made; (c) when batch k+1 is taken, the
\* progress of batch k has been recorded, the checkpoint file holds it if
\* k is on the cadence, and, no write having failed, the publications of
\* batch k are in the store.
C25_WritesInOrder ==
    [][LET b == BatchDocs(hits, current_offset, batch_size)
           new == NewNodes(tracker, b)
       IN /\ (pc = "running" /\ batch_number' = batch_number + 1
              /\ run'.write_failures = run.write_failures)
             => /\ \A r \in Range(extract_authorship_relationships(b)) :
                      (/\ r.sourceId \in NodeIds(new.Person)
                          \/ r.targetId \in NodeIds(new.Publication)
                       /\ r.sourceId \in NodeIdsOf(nodes', "Person")
                       /\ r.targetId \in NodeIdsOf(nodes', "Publication"))
                      => <<r.sourceId, r.targetId>> \in EdgeKeys(authored')
                /\ \A r \in Range(extract_affiliation_relationships(AllPersons(b))) :
                      (/\ r.sourceId \in NodeIds(new.Person)
                          \/ r.targetId \in NodeIds(new.Organization)
                       /\ r.sourceId \in NodeIdsOf(nodes', "Person")
                       /\ r.targetId \in NodeIdsOf(nodes', "Organization"))
                      => <<r.sourceId, r.targetId>> \in EdgeKeys(affiliated')
          /\ (pc = "running" /\ pc' = "idle"
              /\ (authored' # authored \/ affiliated' # affiliated))
             => nodes' = process_publication_batch(Store, b, {}, 3).nodes
          /\ (pc = "running" /\ batch_number' = batch_number + 1 /\ batch_number >= 1)
             => /\ progress.batches_completed
                     = load_progress(file).batches_completed
                       + (batch_number % checkpoint_every)
                /\ progress.last_processed_offset
                     = start_offset + (batch_number * batch_size)
                /\ batch_number % checkpoint_every = 0 => file = <<progress>>
                /\ run.write_failures = 0
                     => NodeIds(PubNodes(yielded[batch_number].batch_docs))
                          \subseteq NodeIdsOf(nodes, "Publication")]_vars

\* C25 witness: the second batch of a run has been processed after the
\* first was written and saved; it created an edge between nodes it wrote
C25_Witness ==
    /\ pc = "running" /\ batch_number = 2 /\ checkpoint_every = 1
    /\ run.write_failures = 0 /\ run.started = 1
    /\ file = <<progress>>
    /\ Len(nodes.Publication) = 2
    /\ \E e \in authored : e.targetId = nodes.Publication[2].id /\ e.sourceId = nodes.Person[2].id

\* C26: after batch k of a run (k counted from 1 in the run) the checkpoint
\* file holds the progress of that batch if k is a multiple of
\* checkpoint_every and is left as it was otherwise; when the run
\* completes the file is written once more with the final progress.
C26_CheckpointCadence ==
    [][/\ (pc = "running" /\ batch_number' = batch_number + 1)
          => IF batch_number' % checkpoint_every = 0
               THEN /\ file' = <<progress'>>
                    /\ file'[1].last_processed_offset
                         = start_offset + (batch_number' * batch_size)
               ELSE file' = file
       /\ (pc = "running" /\ pc' = "idle" /\ run'.exit = "completed")
          => file' = <<progress>>]_vars

\* C26 witness: with checkpoint_every = 2 the first batch of a run has been
\* processed and the file still holds the offset the run started from
C26_Witness ==
    /\ pc = "running" /\ checkpoint_every = 2 /\ batch_number = 1
    /\ progress.last_processed_offset = start_offset + batch_size
    /\ load_progress(file).last_processed_offset = start_offset

\* C26 second witness state: a run of one batch with checkpoint_every = 2
\* has completed and the final save has put that batch's offset in the file
C26_FinalSave ==
    /\ pc = "idle" /\ run.exit = "completed" /\ run.completed = 1 /\ ~run.on_cadence
    /\ file # <<>> /\ file[1].batches_completed = 1

\* C27: every run ends; when a run without cap completes, the checkpoint
\* file it leaves holds an offset at or beyond the number of source
\* records; and a run that starts from such a file is handed no batch and
\* ends with zero batches processed.
C27_RunTerminates ==
    /\ (pc = "running") ~> (pc = "idle")
    /\ [][/\ (pc = "running" /\ pc' = "idle" /\ run'.exit = "completed"
              /\ max_batches = <<>>)
             => /\ file' # <<>>
                /\ file'[1].last_processed_offset >= Len(hits)
          /\ (pc = "idle" /\ pc' = "running" /\ file # <<>>
              /\ file[1].last_processed_offset >= Len(hits))
             => /\ current_offset' >= Len(hits)
                /\ ~GenYields'
          /\ (pc = "running" /\ pc' = "idle" /\ start_offset >= Len(hits))
             => run'.exit = "completed" /\ run'.completed = 0]_vars

\* C27 witness: the first run, without cap, has taken two batches of one
\* record each and completed with the offset 2 in the file
C27_Witness ==
    /\ pc = "idle" /\ run.started = 1 /\ run.exit = "completed" /\ run.completed = 2
    /\ Len(hits) = 2 /\ batch_size = 1 /\ run.write_failures = 0
    /\ file # <<>> /\ file[1].last_processed_offset = 2

\* C28: when the Publication write of a batch fails and no other write
\* does, the batch is still carried through: the failed write leaves the
\* publications of the store as they were, every new person and every new
\* organization of the batch is in the store afterwards, and every AUTHORED
\* and AFFILIATED_WITH candidate whose endpoints the store holds is an edge
\* of the store; all writes of the batch are in the log of issued writes.
C28_FailedWriteDoesNotStopBatch ==
    (hres.op = "process" /\ hres.fails = {"Publication"}) =>
        LET new == NewNodes(hres.before.tracker, hits)
            authorship_rels == extract_authorship_relationships(hits)
            affiliation_rels == extract_affiliation_relationships(AllPersons(hits))
        IN /\ nodes.Publication = hres.before.nodes.Publication
           /\ NodeIds(new.Person) \subseteq NodeIdsOf(nodes, "Person")
           /\ NodeIds(new.Organization) \subseteq NodeIdsOf(nodes, "Organization")
           /\ \A i \in Accepted(nodes, authorship_rels, "Publication") :
                 <<authorship_rels[i].sourceId, authorship_rels[i].targetId>>
                     \in EdgeKeys(authored)
           /\ \A i \in Accepted(nodes, affiliation_rels, "Organization") :
                 <<affiliation_rels[i].sourceId, affiliation_rels[i].targetId>>
                     \in EdgeKeys(affiliated)
           /\ Range(hres.issued) = IssuedOps(hres.before.tracker, hits)
           /\ hres.issued[1] = "Publication"

\* C28 witness: the Publication write failed, all five writes were issued,
\* and the store gained persons, organizations and AFFILIATED_WITH edges
C28_Witness ==
    /\ hres.op = "process" /\ hres.fails = {"Publication"}
    /\ Len(hres.issued) = Len(WriteOps)
    /\ NodeIdsOf(nodes, "Person") # NodeIdsOf(hres.before.nodes, "Person")
    /\ NodeIdsOf(nodes, "Organization") # NodeIdsOf(hres.before.nodes, "Organization")
    /\ EdgeKeys(affiliated) # EdgeKeys(hres.before.affiliated)

\* the non-self edges of the children that have more than one of them
MultiParentEdges(relationships) ==
    {r \in Range(NonSelf(relationships)) : ParentCount(relationships, r.childId) > 1}

\* the candidates extract_hierarchy_relationships builds from the dicts
HierarchyCandidates(organizations) ==
    Flatten([i \in DOMAIN organizations |-> CandidateOf(organizations[i])])

\* C29: (a) validate_hierarchy on a list in which a child has more than one
\* parent edge returns one WARNING diagnostic that names every such child
\* with its number of parent edges, and the list is valid unless it also has
\* a self-reference or a reported cycle; (b) the extraction and the
\* transformer's cleaning keep every parent edge of such a child; (c) the
\* loader's cleaning keeps every parent edge of such a child, and each of
\* them whose two organizations are in the store is a PART_OF edge of the
\* store after the load.
C29_MultiParentKept ==
    /\ (hres.op = "validate" /\ MultiParentEdges(rels) # {}) =>
          /\ \E i \in DOMAIN hres.result.errors :
                /\ HasTag(hres.result.errors[i], "WARNING:")
                /\ Range(hres.result.errors[i].ids) = {r.childId : r \in MultiParentEdges(rels)}
                /\ \A k \in DOMAIN hres.result.errors[i].ids :
                      hres.result.errors[i].counts[k]
                          = ParentCount(rels, hres.result.errors[i].ids[k])
                /\ \A j \in DOMAIN hres.result.errors :
                      HasTag(hres.result.errors[j], "WARNING:") => j = i
          /\ (SelfRefErrors(rels) = <<>> /\ CycleErrors(rels) = <<>>) => hres.result.is_valid
    /\ (hres.op \in {"extract", "chalmers"}) =>
          MultiParentEdges(HierarchyCandidates(orgs)) \subseteq Range(hres.out)
    /\ (hres.op = "load") =>
          /\ MultiParentEdges(rels) \subseteq Range(hres.cleaned)
          /\ \A r \in MultiParentEdges(rels) :
                (/\ r.childId \in NodeIdsOf(nodes, "Organization")
                 /\ r.parentId \in NodeIdsOf(nodes, "Organization"))
                => <<r.childId, r.parentId>> \in partOf

\* C29 witness: a child with two different parents was loaded together with
\* a self-reference that made the loader clean the list, and both parent
\* edges are in the store
C29_Witness ==
    /\ hres.op = "load"
    /\ \E r \in Range(rels) : IsSelfRef(r)
    /\ \E r1, r2 \in MultiParentEdges(rels) :
          /\ r1.childId = r2.childId /\ r1.parentId # r2.parentId
          /\ <<r1.childId, r1.parentId>> \in partOf
          /\ <<r2.childId, r2.parentId>> \in partOf

\* C29 witness of the diagnostic: a valid list with a multi-parent child
C29_WarningWitness ==
    /\ hres.op = "validate" /\ MultiParentEdges(rels) # {}
    /\ hres.result.is_valid /\ Len(hres.result.errors) = 1

\* the cycles of the last-seen-parent map, each as the set of its nodes
ParentMapCycles(relationships) ==
    LET E == ParentMapEdges(relationships)
    IN {Closure(E, {c}) : c \in {x \in DOMAIN ParentMap(relationships) :
                                    x \in Closure(E, {ParentMap(relationships)[x]})}}

\* C30: validate_hierarchy returns, for every cycle of the last-seen-parent
\* map, exactly one "Cycle detected" diagnostic whose path runs over the
\* nodes of that cycle.
C30_EachCycleOnce ==
    (hres.op = "validate") =>
        \A cycle \in ParentMapCycles(rels) :
            Cardinality({i \in DOMAIN hres.result.errors :
                            /\ hres.result.errors[i].what = "Cycle detected"
                            /\ Range(hres.result.errors[i].ids) = cycle}) = 1

\* the edge list has no self-reference and no directed cycle
IsAcyclic(relationships) ==
    \A o \in OrgIds : ~HasPath(EdgeSet(relationships), o, o)

\* C31: for an existing list without cycles, prevent_cycles returns
\* (False, message) exactly when the new edge is a self-reference or a
\* directed path of existing edges leads from its parent to its child, and
\* (True, None) otherwise.
C31_PreventCyclesExact ==
    (hres.op = "prevent" /\ IsAcyclic(rels)) =>
        LET closes == \/ IsSelfRef(hres.new)
                      \/ HasPath(EdgeSet(rels), hres.new.parentId, hres.new.childId)
        IN IF closes
           THEN ~hres.result.is_safe_to_add /\ hres.result.error_message # <<>>
           ELSE hres.result.is_safe_to_add /\ hres.result.error_message = <<>>

(***************************************************************************)
(* transformers/es_transformer.py: transform_publication, the publication  *)
(* type (SpecKind).  A type label is a sequence of chunks of characters;   *)
(* a chunk is one of the keywords the code looks for or other text, in     *)
(* lower case or not.  A key that is absent is Absent, a key whose value   *)
(* is None is Null.                                                        *)
(***************************************************************************)
MaxChunks == 2

Keywords == {"book", "conference", "proceeding", "thesis", "dissertation"}
Chunks == [w : Keywords \cup {"other"}, upper : BOOLEAN]
TypeLabels == SeqsUpTo(Chunks, MaxChunks)

Absent == [t |-> "absent"]
Null == [t |-> "NoneType"]
PyLabel(label) == [t |-> "str", v |-> label]
PyDict(name_eng) == [t |-> "dict", NameEng |-> name_eng]

\* es_doc['PublicationType']: absent, a dict with or without NameEng, or a
\* value that is not a dict
PublicationTypes ==
    {Absent} \cup {PyLabel(l) : l \in TypeLabels}
             \cup {PyDict(n) : n \in {Absent, Null} \cup {PyLabel(l) : l \in TypeLabels}}

\* str.lower()
Lower(label) == [i \in DOMAIN label |-> [label[i] EXCEPT !.upper = FALSE]]

\* keyword in type_name
In(keyword, type_name) ==
    \E i \in DOMAIN type_name : type_name[i] = [w |-> keyword, upper |-> FALSE]

\* (mutant) the conference group tested before the book group
publication_type_ConferenceFirst(pub_type) ==
    IF pub_type.t # "dict" /\ pub_type.t # "absent" THEN <<"article">>
    ELSE IF pub_type.t = "absent" \/ pub_type.NameEng.t = "absent" THEN <<"article">>
    ELSE IF pub_type.NameEng.t = "NoneType" THEN <<>>
    ELSE LET type_name == Lower(pub_type.NameEng.v)
         IN IF type_name = <<>> THEN <<"article">>
            ELSE IF In("conference", type_name) \/ In("proceeding", type_name)
                   THEN <<"conference">>
            ELSE IF In("book", type_name) THEN <<"book">>
            ELSE IF In("thesis", type_name) \/ In("dissertation", type_name)
                   THEN <<"thesis">>
            ELSE <<"article">>

\* publication_type of transform_publication: <<kind>>, or <<>> where
\* None.lower() raises
publication_type(pub_type) ==
    IF pub_type.t # "dict" /\ pub_type.t # "absent" THEN <<"article">>
    ELSE IF pub_type.t = "absent" \/ pub_type.NameEng.t = "absent" THEN <<"article">>
    ELSE IF pub_type.NameEng.t = "NoneType" THEN <<>>
    ELSE LET type_name == Lower(pub_type.NameEng.v)
         IN IF type_name = <<>> THEN <<"article">>
            ELSE IF In("book", type_name) THEN <<"book">>
            ELSE IF In("conference", type_name) \/ In("proceeding", type_name)
                   THEN <<"conference">>
            ELSE IF In("thesis", type_name) \/ In("dissertation", type_name)
                   THEN <<"thesis">>
            ELSE <<"article">>

KindInit ==
    /\ \E pub_type \in PublicationTypes : hres = [op |-> "kind_input", pub_type |-> pub_type]
    /\ LoaderUnused
    /\ nodes = NoNodes /\ partOf = {} /\ rels = <<>> /\ orgs = <<>>

\* transform_publication(es_doc) up to the publication type
KInfer ==
    /\ hres.op = "kind_input"
    /\ hres' = [op |-> "kind", pub_type |-> hres.pub_type,
                publication_type |-> publication_type(hres.pub_type)]
    /\ UNCHANGED <<storeVars, partOf, rels, orgs, readerVars, loaderVars, pc>>

KindNext == KInfer

SpecKind == KindInit /\ [][KindNext]_vars

\* the keyword groups in the order of the claim
KindGroups ==
    << [kind |-> "book", keywords |-> {"book"}],
       [kind |-> "conference", keywords |-> {"conference", "proceeding"}],
       [kind |-> "thesis", keywords |-> {"thesis", "dissertation"}] >>

\* the groups a keyword of which occurs in the label, whatever its case
MatchingGroups(label) ==
    {g \in DOMAIN KindGroups : \E i \in DOMAIN label : label[i].w \in KindGroups[g].keywords}

MaxIdDocs == 2

IdValues == {None, "", "q1", "q2"}

\* one author p1; with or without a Title
IdCatalogue ==
    {Hit(id, sid, title, 2020, <<Author("p1", "n1", <<>>, <<>>)>>) :
        id \in IdValues, sid \in IdValues, title \in {"t1", ""}}

PubIdInit ==
    /\ hits \in SeqsUpTo(IdCatalogue, MaxIdDocs)
    /\ nodes = NoNodes
    /\ tracker = load_existing_entities(nodes)
    /\ hres = [op |-> "none"]
    /\ batch_size = 1 /\ max_batches = <<>> /\ checkpoint_every = 1
    /\ start_offset = 0 /\ batch_number = 0 /\ current_offset = 0 /\ yielded = <<>>
    /\ pc = "idle" /\ progress = IdleProgress /\ file = <<>> /\ stats = IdleStats
    /\ run = NoRun /\ hist = <<>>
    /\ partOf = {} /\ authored = {} /\ affiliated = {}
    /\ rels = <<>> /\ orgs = <<>>

SpecPubId == PubIdInit /\ [][BatchNext]_vars

\* C33: when a batch has been processed, every AUTHORED candidate derived
\* from a record of the batch that transforms has as targetId the id of the
\* Publication node that record is transformed to.
C33_SamePublicationId ==
    (hres.op = "process") =>
        \A i \in DOMAIN hits :
            transform_publication(hits[i]) # <<>> =>
                \A r \in Range(extract_authorship_relationships(<<hits[i]>>)) :
                    r.targetId = transform_publication(hits[i])[1].id

\* the number of records in the batches the generator has yielded in this run
RECURSIVE Consumed(_)
Consumed(batches) ==
    IF batches = <<>> THEN 0 ELSE Len(Head(batches).batch_docs) + Consumed(Tail(batches))

\* C34: after every completed batch last_processed_offset, in memory and in
\* the checkpoint file when it is written, equals the run's start offset
\* plus the number of records of the batches processed in this run, and
\* does not exceed the number of records of the source.
C34_OffsetIsRecordsConsumed ==
    [][(pc = "running" /\ batch_number' = batch_number + 1) =>
          /\ progress'.last_processed_offset = start_offset + Consumed(yielded')
          /\ progress'.last_processed_offset <= Len(hits)
          /\ (file' # file) =>
                file'[1].last_processed_offset = start_offset + Consumed(yielded')]_vars

(***************************************************************************)
(* save_progress opens the checkpoint file with mode 'w', which truncates  *)
(* it, and then writes the JSON text.  A process that dies in between      *)
(* leaves a file that json.load rejects; load_progress then returns the    *)
(* initial progress, as it does without a file.  SpecKill adds that kill   *)
(* to the steps of Spec.                                                   *)
(***************************************************************************)
\* the process dies inside the save_progress of a due checkpoint, after the
\* last write of the batch: either the file is left truncated and the batch
\* counts as in flight, or the text has been written and the batch is
\* complete
KillInSave(written) ==
    /\ (batch_number + 1) % checkpoint_every = 0
    /\ Abandon(Len(WriteOps))
    /\ file' = IF written
                 THEN <<ProgressAfter(progress, start_offset, batch_number + 1, batch_size,
                                      BatchDocs(hits, current_offset, batch_size))>>
                 ELSE <<>>
    /\ run' = IF written
                THEN [Ended("killed", Len(WriteOps)) EXCEPT
                        !.completed = stats.batches_processed + 1,
                        !.on_cadence = TRUE,
                        !.delivered_to = BatchRange[2]]
                ELSE Ended("killed", Len(WriteOps))

NextKill == Next \/ \E written \in BOOLEAN : KillInSave(written)

SpecKill == Init /\ [][NextKill]_vars

\* C35: when a run is killed, the offset the next run will start from (that
\* of the checkpoint file, 0 without a readable one) is the run's start
\* offset plus a multiple of checkpoint_every batches, lies fewer than
\* checkpoint_every completed batches behind the completed work, and is not
\* past the first record that no completed batch has processed.
C35_KilledRunLagsLessThanCadence ==
    [][(pc = "running" /\ pc' = "idle" /\ run'.exit = "killed") =>
          LET completed == run'.completed
              resume == Min(load_progress(file').last_processed_offset, Len(hits))
          IN /\ resume <= run'.delivered_to
             /\ run'.delivered_to - resume <= (checkpoint_every - 1) * batch_size
             /\ load_progress(file').last_processed_offset
                  = start_offset + ((completed - (completed % checkpoint_every)) * batch_size)]_vars

(***************************************************************************)
(* loaders/incremental_loader.py: EntityTracker, its four operations in    *)
(* any order on a store that does not change (SpecTracker).  pc is         *)
(* "created" while _loaded is False and "loaded" afterwards; hist lists    *)
(* the (entity_type, entity_id) pairs mark_entity_loaded was called with.  *)
(***************************************************************************)
MaxTrackerMarks == 2

TrackerIds == {"q1", "q2", "p1", "10"}

\* "if not self._loaded: self.load_existing_entities()"
Hydrated == IF pc = "created" THEN load_existing_entities(nodes) ELSE tracker

TrackerInit ==
    /\ nodes \in BatchStores
    /\ hits = <<DocA, DocB>>
    /\ tracker = EmptyTracker /\ pc = "created"
    /\ hist = <<>> /\ hres = [op |-> "none"]
    /\ batch_size = 1 /\ max_batches = <<>> /\ checkpoint_every = 1
    /\ start_offset = 0 /\ batch_number = 0 /\ current_offset = 0 /\ yielded = <<>>
    /\ progress = IdleProgress /\ file = <<>> /\ stats = IdleStats /\ run = NoRun
    /\ partOf = {} /\ authored = {} /\ affiliated = {}
    /\ rels = <<>> /\ orgs = <<>>

\* EntityTracker.load_existing_entities(): every set is assigned the ids of
\* the store
TLoad ==
    /\ tracker' = load_existing_entities(nodes)
    /\ pc' = "loaded"
    /\ hres' = [op |-> "load_existing_entities"]
    /\ UNCHANGED <<storeVars, rels, orgs, readerVars, checkpoint_every, progress, file,
                   stats, run, hist>>

\* EntityTracker.is_entity_existing(entity_type, entity_id)
TIsExisting(entity_type, entity_id) ==
    /\ tracker' = Hydrated
    /\ pc' = "loaded"
    /\ hres' = [op |-> "is_entity_existing", entity_type |-> entity_type,
                entity_id |-> entity_id, out |-> entity_id \in Hydrated[entity_type]]
    /\ UNCHANGED <<storeVars, rels, orgs, readerVars, checkpoint_every, progress, file,
                   stats, run, hist>>

\* EntityTracker.mark_entity_loaded(entity_type, entity_id)
TMark(entity_type, entity_id) ==
    /\ Len(hist) < MaxTrackerMarks
    /\ tracker' = [Hydrated EXCEPT ![entity_type] = @ \cup {entity_id}]
    /\ pc' = "loaded"
    /\ hist' = Append(hist, <<entity_type, entity_id>>)
    /\ hres' = [op |-> "mark_entity_loaded"]
    /\ UNCHANGED <<storeVars, rels, orgs, readerVars, checkpoint_every, progress, file,
                   stats, run>>

\* EntityTracker.get_new_entities(entity_type, entities)
TGetNew(entity_type) ==
    /\ tracker' = Hydrated
    /\ pc' = "loaded"
    /\ hres' = [op |-> "get_new_entities", entity_type |-> entity_type,
                out |-> get_new_entities(Hydrated, entity_type,
                                         CandidatesOf(entity_type, hits))]
    /\ UNCHANGED <<storeVars, rels, orgs, readerVars, checkpoint_every, progress, file,
                   stats, run, hist>>

TrackerNext ==
    \/ TLoad
    \/ \E entity_type \in Labels, entity_id \in TrackerIds :
          TIsExisting(entity_type, entity_id)
    \/ \E entity_type \in Labels, entity_id \in TrackerIds : TMark(entity_type, entity_id)
    \/ \E entity_type \in Labels : TGetNew(entity_type)

SpecTracker == TrackerInit /\ [][TrackerNext]_vars

\* C36: every (entity_type, entity_id) that mark_entity_loaded has been
\* called with is in the tracker's set of that type, after any operations
\* that followed.
C36_MarkedStaysKnown ==
    \A i \in DOMAIN hist : hist[i][2] \in tracker[hist[i][1]]

\* C37: the organization of every AFFILIATED_WITH candidate derived from a
\* batch is one of the organizations extract_nested_entities_from_publications
\* returns for that batch; and when the batch has been processed without a
\* failed write, every candidate whose person is in the store is an edge of
\* the store.
C37_AffiliationOrgExtracted ==
    /\ (hres.op = "nested") =>
          \A r \in Range(extract_affiliation_relationships(AllPersons(hits))) :
              \E k \in DOMAIN hres.out.organizations :
                  hres.out.organizations[k].Id = r.targetId
    /\ (hres.op = "process" /\ hres.fails = {}) =>
          \A r \in Range(extract_affiliation_relationships(AllPersons(hits))) :
              r.sourceId \in NodeIdsOf(nodes, "Person")
                  => <<r.sourceId, r.targetId>> \in EdgeKeys(affiliated)

(***************************************************************************)
(* loaders/streaming_loader.py: EntityBatchProcessor (SpecFilter).         *)
(* tracker holds processed_entities; hist lists the calls of               *)
(* filter_new_entities that returned, each with its arguments and the list *)
(* it returned; hres is the last call, returned or raised.                 *)
(***************************************************************************)
MaxFilterCalls == 2
MaxFilterEntities == 2

\* entity dicts: a key that is missing reads as None through dict.get
FilterEntities ==
    { [_es_id |-> "a",  Id |-> "b",  id |-> None],
      [_es_id |-> None, Id |-> "a",  id |-> None],
      [_es_id |-> None, Id |-> None, id |-> "b"],
      [_es_id |-> "",   Id |-> "",   id |-> "b"],
      [_es_id |-> None, Id |-> None, id |-> None],
      [_es_id |-> "",   Id |-> "",   id |-> ""] }

FilterTypes == {"persons", "organizations", "publications"}

\* "authors" is not a key of processed_entities
FilterTypeArgs == FilterTypes \cup {"authors"}

EmptyProcessed == [persons |-> {}, organizations |-> {}, publications |-> {}]

\* entity.get('_es_id') or entity.get('Id') or entity.get('id')
filter_entity_id(entity) == Or(entity._es_id, Or(entity.Id, entity.id))

RECURSIVE FilterLoop_AddAfter(_, _, _, _)
\* the loop with processed_set.add moved after the loop
FilterLoop_AddAfter(processed_set, entities, new_entities, added) ==
    IF entities = <<>>
    THEN [out |-> new_entities, processed_set |-> processed_set \cup added]
    ELSE LET entity == Head(entities)
             entity_id == filter_entity_id(entity)
         IN IF entity_id # None /\ entity_id # "" /\ entity_id \notin processed_set
            THEN FilterLoop_AddAfter(processed_set, Tail(entities),
                                     Append(new_entities, entity), added \cup {entity_id})
            ELSE FilterLoop_AddAfter(processed_set, Tail(entities), new_entities, added)

RECURSIVE FilterLoop(_, _, _, _)
\* "for entity in entities": the entities still to visit, new_entities so far
FilterLoop(processed_set, entities, new_entities, added) ==
    IF entities = <<>>
    THEN [out |-> new_entities, processed_set |-> processed_set]
    ELSE LET entity == Head(entities)
             entity_id == filter_entity_id(entity)
         IN IF entity_id # None /\ entity_id # "" /\ entity_id \notin processed_set
            THEN FilterLoop(processed_set \cup {entity_id}, Tail(entities),
                            Append(new_entities, entity), added)
            ELSE FilterLoop(processed_set, Tail(entities), new_entities, added)

\* EntityBatchProcessor.filter_new_entities on a known entity_type: the list
\* returned and processed_entities[entity_type] afterwards
filter_new_entities(processed_set, entities) == FilterLoop(processed_set, entities, <<>>, {})

FilterInit ==
    /\ tracker = EmptyProcessed /\ pc = "created"
    /\ hist = <<>> /\ hres = [op |-> "none"]
    /\ nodes = NoNodes /\ hits = <<>>
    /\ batch_size = 1 /\ max_batches = <<>> /\ checkpoint_every = 1
    /\ start_offset = 0 /\ batch_number = 0 /\ current_offset = 0 /\ yielded = <<>>
    /\ progress = IdleProgress /\ file = <<>> /\ stats = IdleStats /\ run = NoRun
    /\ partOf = {} /\ authored = {} /\ affiliated = {}
    /\ rels = <<>> /\ orgs = <<>>

\* filter_new_entities(entity_type, entities) with a key of processed_entities
FFilter(entity_type, entities) ==
    /\ Len(hist) < MaxFilterCalls
    /\ entity_type \in FilterTypes
    /\ LET r == filter_new_entities(tracker[entity_type], entities)
       IN /\ tracker' = [tracker EXCEPT ![entity_type] = r.processed_set]
          /\ hist' = Append(hist, [entity_type |-> entity_type, entities |-> entities,
                                   out |-> r.out])
          /\ hres' = [op |-> "filter_new_entities", raised |-> FALSE]
    /\ UNCHANGED <<storeVars, rels, orgs, readerVars, checkpoint_every, pc, progress, file,
                   stats, run>>

\* "if entity_type not in self.processed_entities: raise ValueError"
FUnknownType(entity_type, entities) ==
    /\ entity_type \notin FilterTypes
    /\ hres' = [op |-> "filter_new_entities", raised |-> TRUE]
    /\ UNCHANGED <<storeVars, rels, orgs, readerVars, checkpoint_every, pc, progress, file,
                   stats, run, tracker, hist>>

FilterNext ==
    \E entity_type \in FilterTypeArgs, entities \in SeqsUpTo(FilterEntities, MaxFilterEntities) :
        \/ FFilter(entity_type, entities)
        \/ FUnknownType(entity_type, entities)

SpecFilter == FilterInit /\ [][FilterNext]_vars

\* the (call, position) pairs of the entities returned so far
ReturnedAt == {<<i, p>> : i \in DOMAIN hist, p \in 1..MaxFilterEntities} \cap
              UNION {{<<i, p>> : p \in DOMAIN hist[i].out} : i \in DOMAIN hist}

\* C39: over the calls of filter_new_entities for one entity kind, no entity
\* ID is returned twice, by two calls or twice by one call; an entity
\* returned is the first of its call's argument with that ID; and a call
\* whose entities were the argument of an earlier call of the same kind
\* returns the empty list.
C39_ReturnedAtMostOnce ==
    /\ \A x \in ReturnedAt, y \in ReturnedAt :
          (x # y /\ hist[x[1]].entity_type = hist[y[1]].entity_type)
              => filter_entity_id(hist[x[1]].out[x[2]]) # filter_entity_id(hist[y[1]].out[y[2]])
    /\ \A i \in DOMAIN hist : \A p \in DOMAIN hist[i].out :
          \E k \in DOMAIN hist[i].entities :
              /\ hist[i].entities[k] = hist[i].out[p]
              /\ \A j \in 1..(k - 1) :
                    filter_entity_id(hist[i].entities[j]) # filter_entity_id(hist[i].out[p])
    /\ \A i \in DOMAIN hist, j \in DOMAIN hist :
          (i < j /\ hist[i].entity_type = hist[j].entity_type
                 /\ hist[i].entities = hist[j].entities)
              => hist[j].out = <<>>

\* two calls for one kind with the same two entities of one ID: the first
\* returns the first entity only, the second returns nothing
C39_Witness ==
    /\ Len(hist) = 2
    /\ hist[1].entity_type = hist[2].entity_type
    /\ hist[1].entities = hist[2].entities
    /\ Len(hist[1].entities) = 2
    /\ filter_entity_id(hist[1].entities[1]) = filter_entity_id(hist[1].entities[2])
    /\ hist[1].entities[1] # hist[1].entities[2]
    /\ hist[1].out = <<hist[1].entities[1]>>
    /\ hist[2].out = <<>>

(***************************************************************************)
(* utils/validation.py: the loops of validate_hierarchy (step 3) and of    *)
(* prevent_cycles, one iteration per step (SpecWalk).  hres holds the      *)
(* locals of the call: at is the loop the call is in, or "return".         *)
(***************************************************************************)
NoId == ""

\* the locals before "for child_id in parent_map"
ValidateStart ==
    [op |-> "validate_hierarchy", at |-> "for", i |-> 1, cycles_detected |-> {},
     errors |-> <<>>, current |-> NoId, visited |-> {}, path |-> <<>>]

\* (mutant) the while loop without visited.add(current) and path.append(current)
ValidateStep_NoVisited(parent_map, keys, w) ==
    IF w.at = "for"
    THEN IF w.i > Len(keys) THEN [w EXCEPT !.at = "return"]
         ELSE IF keys[w.i] \in w.cycles_detected THEN [w EXCEPT !.i = @ + 1]
         ELSE [w EXCEPT !.at = "while", !.current = keys[w.i], !.visited = {}, !.path = <<>>]
    ELSE IF w.current \notin DOMAIN parent_map
         THEN [w EXCEPT !.at = "for", !.i = @ + 1]
         ELSE IF w.current \in w.visited
              THEN [w EXCEPT !.at = "for", !.i = @ + 1]
              ELSE [w EXCEPT !.current = parent_map[w.current]]

\* one test of the for loop or one iteration of the while loop
ValidateStep(parent_map, keys, w) ==
    IF w.at = "for"
    THEN IF w.i > Len(keys) THEN [w EXCEPT !.at = "return"]
         ELSE IF keys[w.i] \in w.cycles_detected THEN [w EXCEPT !.i = @ + 1]
         ELSE [w EXCEPT !.at = "while", !.current = keys[w.i], !.visited = {}, !.path = <<>>]
    ELSE IF w.current \notin DOMAIN parent_map
         THEN [w EXCEPT !.at = "for", !.i = @ + 1]
         ELSE IF w.current \in w.visited
              THEN LET cycle_path == SubSeq(w.path, Index(w.path, w.current), Len(w.path))
                                       \o <<w.current>>
                   IN [w EXCEPT !.at = "for", !.i = @ + 1,
                                !.errors = Append(@, Diagnostic("", "Cycle detected",
                                                                cycle_path, <<>>)),
                                !.cycles_detected = @ \cup Range(cycle_path)]
              ELSE [w EXCEPT !.visited = @ \cup {w.current},
                             !.path = Append(@, w.current),
                             !.current = parent_map[w.current]]

\* the locals of prevent_cycles before its while loop, or its result for a
\* self-reference
PreventStart(new_relationship) ==
    IF new_relationship.childId = new_relationship.parentId
    THEN [op |-> "prevent_cycles", at |-> "return", new |-> new_relationship,
          current |-> NoId, visited |-> {}, path |-> <<>>,
          result |-> prevent_cycles(<<>>, new_relationship)]
    ELSE [op |-> "prevent_cycles", at |-> "while", new |-> new_relationship,
          current |-> new_relationship.parentId, visited |-> {},
          path |-> <<new_relationship.childId, new_relationship.parentId>>,
          result |-> [is_safe_to_add |-> TRUE, error_message |-> <<>>]]

\* one iteration of "while current in parent_map and current not in visited"
PreventStep(parent_map, w) ==
    IF w.current \in DOMAIN parent_map /\ w.current \notin w.visited
    THEN IF parent_map[w.current] = w.new.childId
         THEN [w EXCEPT !.at = "return",
                        !.visited = @ \cup {w.current},
                        !.current = parent_map[w.current],
                        !.path = Append(@, parent_map[w.current]),
                        !.result = [is_safe_to_add |-> FALSE,
                                    error_message |->
                                      << Diagnostic("", "Adding relationship would create cycle",
                                                    Append(w.path, parent_map[w.current]),
                                                    <<>>) >>]]
         ELSE [w EXCEPT !.visited = @ \cup {w.current},
                        !.current = parent_map[w.current],
                        !.path = Append(@, parent_map[w.current])]
    ELSE [w EXCEPT !.at = "return"]

WalkInit ==
    /\ LoaderUnused
    /\ rels \in EdgeLists
    /\ orgs = <<>> /\ nodes = NoNodes /\ partOf = {}
    /\ hres = [op |-> "none"]

WValidateStart ==
    /\ hres.op = "none"
    /\ hres' = ValidateStart
    /\ UNCHANGED <<storeVars, rels, orgs, readerVars, loaderVars, pc>>

WValidateStep ==
    /\ hres.op = "validate_hierarchy"
    /\ hres.at # "return"
    /\ hres' = ValidateStep(ParentMap(rels), ParentMapKeys(rels), hres)
    /\ UNCHANGED <<storeVars, rels, orgs, readerVars, loaderVars, pc>>

WPreventStart(new_relationship) ==
    /\ hres.op = "none"
    /\ hres' = PreventStart(new_relationship)
    /\ UNCHANGED <<storeVars, rels, orgs, readerVars, loaderVars, pc>>

WPreventStep ==
    /\ hres.op = "prevent_cycles"
    /\ hres.at # "return"
    /\ hres' = PreventStep(ParentMap(rels), hres)
    /\ UNCHANGED <<storeVars, rels, orgs, readerVars, loaderVars, pc>>

WalkNext ==
    \/ WValidateStart
    \/ WValidateStep
    \/ \E new_relationship \in Edges : WPreventStart(new_relationship)
    \/ WPreventStep

\* a call that has started keeps executing
SpecWalk ==
    /\ WalkInit /\ [][WalkNext]_vars
    /\ WF_vars(WValidateStep)
    /\ WF_vars(WPreventStep)

Returned == hres.op # "none" /\ hres.at = "return"

\* C38: every call of validate_hierarchy's cycle detection and of
\* prevent_cycles on an edge list returns, and it returns what the
\* functions compute: the cycle diagnostics of validate_hierarchy and the
\* result of prevent_cycles.
C38_WalksTerminate ==
    /\ (hres.op # "none") ~> Returned
    /\ [](Returned =>
            IF hres.op = "validate_hierarchy"
            THEN hres.errors = CycleErrors(rels)
            ELSE hres.result = prevent_cycles(rels, hres.new))

\* C38 witness: validate_hierarchy has returned on a list with a cycle and
\* a self-reference
C38_Witness ==
    /\ Returned /\ hres.op = "validate_hierarchy"
    /\ hres.errors # <<>>
    /\ \E r \in Range(rels) : IsSelfRef(r)

\* C38 witness for prevent_cycles: it has returned on a list with a cycle
\* that its walk entered
C38_PreventWitness ==
    /\ Returned /\ hres.op = "prevent_cycles"
    /\ hres.result.is_safe_to_add
    /\ Cardinality(hres.visited) >= 2
    /\ hres.current \in hres.visited

=============================================================================
